---- MODULE Spec2Model ----
(***************************************************************************)
(* personal-feed: the local store (lib/db.ts), the remote sync client      *)
(* (lib/sync.ts) and their callers, as a state machine.                    *)
(*                                                                         *)
(* Strings are sequences of one-character strings, so that trim and        *)
(* slugify are computed and not assumed.  A nullable value is Null or      *)
(* Some(v).  A timestamp is an instant number: the ISO-8601 strings that   *)
(* Date.toISOString produces sort lexically in the order of their          *)
(* instants (years 0000..9999), so string comparison of two ISO strings is *)
(* integer comparison of their instants.                                   *)
(***************************************************************************)
EXTENDS Integers, Sequences, FiniteSets, TLC

\* ------------------------------------------------------------------ bounds

\* Calls made against the store in one run: sync passes started plus direct
\* API calls.  Every call advances the clock by one instant.
MaxOps == 3

\* ------------------------------------------------------------ null, options

Null == <<>>
Some(v) == <<v>>
Get(o) == o[1]

\* a ?? b
OrElse(a, b) == IF a # Null THEN a ELSE b

Max(a, b) == IF a >= b THEN a ELSE b
Min(a, b) == IF a <= b THEN a ELSE b

\* ------------------------------------------------------------------ strings

Whitespace == {" ", "\t", "\n"}

UpperCase ==
  <<"A","B","C","D","E","F","G","H","I","J","K","L","M",
    "N","O","P","Q","R","S","T","U","V","W","X","Y","Z">>
LowerCase ==
  <<"a","b","c","d","e","f","g","h","i","j","k","l","m",
    "n","o","p","q","r","s","t","u","v","w","x","y","z">>
Digits == {"0","1","2","3","4","5","6","7","8","9"}

Range(s) == {s[i] : i \in DOMAIN s}

\* String.prototype.toLowerCase, one character.
ToLowerChar(c) ==
  IF \E i \in DOMAIN UpperCase : UpperCase[i] = c
  THEN LowerCase[CHOOSE i \in DOMAIN UpperCase : UpperCase[i] = c]
  ELSE c

ToLowerCase(s) == [i \in DOMAIN s |-> ToLowerChar(s[i])]

\* String.prototype.trim
RECURSIVE TrimStart(_)
TrimStart(s) ==
  IF s # <<>> /\ Head(s) \in Whitespace THEN TrimStart(Tail(s)) ELSE s

RECURSIVE TrimEnd(_)
TrimEnd(s) ==
  IF s # <<>> /\ s[Len(s)] \in Whitespace
  THEN TrimEnd(SubSeq(s, 1, Len(s) - 1))
  ELSE s

Trim(s) == TrimEnd(TrimStart(s))

\* ------------------------------------------------------------- JSON values

JStr(s) == [t |-> "string", v |-> s]
JNum(n) == [t |-> "number", v |-> n]
JNull == [t |-> "null"]
Undefined == [t |-> "undefined"]

\* ------------------------------------------------- sync.ts: field parsers

CATEGORY_VALUES ==
  { <<"C","r","y","p","t","o">>, <<"M","a","r","k","e","t","i","n","g">>,
    <<"T","e","c","h">>, <<"G","e","n","e","r","a","l">> }
General == <<"G","e","n","e","r","a","l">>

STATUS_VALUES ==
  { <<"u","n","r","e","a","d">>, <<"r","e","a","d">>,
    <<"c","l","i","p","p","e","d">>, <<"d","i","s","m","i","s","s","e","d">>,
    <<"s","a","v","e","d">> }
Unread == <<"u","n","r","e","a","d">>
Read == <<"r","e","a","d">>
Saved == <<"s","a","v","e","d">>

SOURCE_TYPE_VALUES ==
  { <<"r","s","s">>, <<"h","t","m","l">>, <<"e","m","a","i","l">> }
Rss == <<"r","s","s">>
Html == <<"h","t","m","l">>

\* toStringValue without the length test: an empty string is returned.
toStringValueKeepsEmpty(value) ==
  IF value.t # "string" THEN Null ELSE Some(Trim(value.v))

toStringValue(value) ==
  IF value.t # "string" THEN Null
  ELSE LET trimmed == Trim(value.v)
       IN IF Len(trimmed) > 0 THEN Some(trimmed) ELSE Null

parseCategory(value) ==
  LET candidate == toStringValue(value)
  IN IF candidate # Null /\ Get(candidate) \in CATEGORY_VALUES
     THEN Get(candidate) ELSE General

parseStatus(value) ==
  LET candidate == toStringValue(value)
  IN IF candidate # Null /\ Get(candidate) \in STATUS_VALUES
     THEN Get(candidate) ELSE Unread

parseSourceType(value) ==
  LET candidate == toStringValue(value)
  IN IF candidate # Null /\ Get(candidate) \in SOURCE_TYPE_VALUES
     THEN Get(candidate) ELSE Rss

\* Number(string) for the decimal digit strings the payloads carry: surrounding
\* whitespace is ignored, the empty string is 0, anything else is NaN (Null).
RECURSIVE DigitsValue(_)
DigitsValue(s) ==
  IF s = <<>> THEN 0
  ELSE 10 * DigitsValue(SubSeq(s, 1, Len(s) - 1))
       + (CHOOSE d \in 0..9 : ToString(d) = s[Len(s)])

StringToNumber(s) ==
  LET body == Trim(s)
  IN IF Range(body) \subseteq Digits THEN Some(DigitsValue(body)) ELSE Null

parseNumber(value) ==
  IF value.t = "number" THEN Some(value.v)
  ELSE IF value.t = "string" THEN StringToNumber(value.v)
  ELSE Null

\* new Date(text).getTime(): the instant of the date strings the payloads
\* carry; every other string is an invalid date (NaN).  Two spellings of one
\* instant parse to the same instant.
DateTable ==
  { [text |-> <<"2","0","2","4">>, instant |-> 1],
    [text |-> <<"2","0","2","4","-","0","1">>, instant |-> 1],
    [text |-> <<"2","0","2","5">>, instant |-> 2],
    [text |-> <<"2","0","2","6">>, instant |-> 3] }

DateParse(s) ==
  IF \E e \in DateTable : e.text = s
  THEN Some((CHOOSE e \in DateTable : e.text = s).instant)
  ELSE Null

toIsoTimestamp(value) ==
  LET candidate == toStringValue(value)
  IN IF candidate = Null THEN Null ELSE DateParse(Get(candidate))

\* new URL(text): href and hostname of the absolute URLs the payloads carry;
\* every other string throws (Null).  The parser lower-cases scheme and host
\* and adds the root path, so several spellings share one href.
UrlTable ==
  { [text |-> <<"h","t","t","p",":","/","/","x","/","a">>,
     href |-> <<"h","t","t","p",":","/","/","x","/","a">>, hostname |-> <<"x">>],
    [text |-> <<"H","T","T","P",":","/","/","X","/","a">>,
     href |-> <<"h","t","t","p",":","/","/","x","/","a">>, hostname |-> <<"x">>],
    [text |-> <<"h","t","t","p",":","/","/","x","/","b">>,
     href |-> <<"h","t","t","p",":","/","/","x","/","b">>, hostname |-> <<"x">>],
    [text |-> <<"h","t","t","p",":","/","/","Y","-","z">>,
     href |-> <<"h","t","t","p",":","/","/","y","-","z","/">>,
     hostname |-> <<"y","-","z">>] }

\* An href parses to itself.
UrlParse(s) ==
  IF \E e \in UrlTable : e.text = s \/ e.href = s
  THEN LET e == CHOOSE e \in UrlTable : e.text = s \/ e.href = s
       IN Some([href |-> e.href, hostname |-> e.hostname])
  ELSE Null

normalizeUrl(value) ==
  LET candidate == toStringValue(value)
  IN IF candidate = Null THEN Null
     ELSE LET parsed == UrlParse(Get(candidate))
          IN IF parsed = Null THEN Null ELSE Some(Get(parsed).href)

\* .slice(0, 80)
SLUG_MAX == 80
UnknownSource == <<"u","n","k","n","o","w","n","-","s","o","u","r","c","e">>

IsSlugChar(c) == c \in Range(LowerCase) \cup Digits

\* .replace(/[^a-z0-9]+/g, "-"): every maximal run of other characters
\* becomes one hyphen.
CollapseRuns(s) ==
  LET kept == { i \in DOMAIN s : IsSlugChar(s[i]) \/ i = 1 \/ IsSlugChar(s[i - 1]) }
      nth(k) == CHOOSE i \in kept : Cardinality({ j \in kept : j <= i }) = k
  IN [ k \in 1..Cardinality(kept) |-> IF IsSlugChar(s[nth(k)]) THEN s[nth(k)] ELSE "-" ]

\* .replace(/(^-|-$)/g, ""): one hyphen off each end.
StripEdgeHyphens(s) ==
  LET a == IF s # <<>> /\ Head(s) = "-" THEN Tail(s) ELSE s
  IN IF a # <<>> /\ a[Len(a)] = "-" THEN SubSeq(a, 1, Len(a) - 1) ELSE a

slugify(value) ==
  LET stripped == StripEdgeHyphens(CollapseRuns(ToLowerCase(value)))
      slug == SubSeq(stripped, 1, Min(Len(stripped), SLUG_MAX))
  IN IF Len(slug) > 0 THEN slug ELSE UnknownSource

deriveSourceId(sourceName, sourceUrl) ==
  IF sourceName # Null THEN Some(slugify(Get(sourceName)))
  ELSE IF sourceUrl = Null THEN Null
  ELSE LET parsed == UrlParse(Get(sourceUrl))
       IN IF parsed = Null THEN Null
          ELSE Some(slugify(Get(parsed).hostname))

\* A JSON object is a function from its keys; `key in record` is membership
\* in its domain.
JObj(f) == [t |-> "object", f |-> f]
JArr(a) == [t |-> "array", v |-> a]

RECURSIVE getObjectValue(_, _)
getObjectValue(record, keys) ==
  IF keys = <<>> THEN Undefined
  ELSE IF Head(keys) \in DOMAIN record THEN record[Head(keys)]
  ELSE getObjectValue(record, Tail(keys))

\* The object a raw record is read as: a JSON object's own map; an array is
\* an object with none of the keys read here.
RecordOf(raw) == IF raw.t = "object" THEN raw.f ELSE <<>>

normalizeSyncCandidate(raw) ==
  IF raw.t \notin {"object", "array"} THEN Null
  ELSE
  LET record == RecordOf(raw)
      title == toStringValue(getObjectValue(record, <<"title">>))
      url == normalizeUrl(getObjectValue(record, <<"url", "link">>))
  IN
  IF title = Null \/ url = Null THEN Null
  ELSE
  LET sourceName ==
        toStringValue(getObjectValue(record, <<"source_name", "sourceName", "source">>))
      sourceUrl == normalizeUrl(getObjectValue(record, <<"source_url", "sourceUrl">>))
      sourceId ==
        OrElse(toStringValue(getObjectValue(record, <<"source_id", "sourceId">>)),
               deriveSourceId(sourceName, sourceUrl))
  IN
  IF sourceId = Null THEN Null
  ELSE
  LET category == parseCategory(getObjectValue(record, <<"category">>))
      sourceType ==
        parseSourceType(getObjectValue(record, <<"source_type", "sourceType", "type">>))
      publishedAt ==
        toIsoTimestamp(getObjectValue(record, <<"published_at", "publishedAt", "pubDate">>))
      item ==
        [ source_id |-> Get(sourceId),
          title |-> Get(title),
          url |-> Get(url),
          author |-> toStringValue(getObjectValue(record, <<"author">>)),
          published_at |-> publishedAt,
          content_md |-> toStringValue(getObjectValue(record, <<"content_md", "contentMd">>)),
          content_text |->
            toStringValue(getObjectValue(record, <<"content_text", "contentText">>)),
          summary |-> toStringValue(getObjectValue(record, <<"summary">>)),
          score |-> Some(Get(OrElse(parseNumber(getObjectValue(record, <<"score">>)), Some(0)))),
          status |-> Some(parseStatus(getObjectValue(record, <<"status">>))),
          acted_at |-> toIsoTimestamp(getObjectValue(record, <<"acted_at", "actedAt">>)) ]
      source ==
        [ id |-> Get(sourceId),
          name |-> Get(OrElse(sourceName, sourceId)),
          url |-> Get(OrElse(sourceUrl, url)),
          type |-> sourceType,
          category |-> category,
          enabled |-> Some(TRUE),
          added_at |-> Null ]
      cursor ==
        OrElse(toIsoTimestamp(getObjectValue(record, <<"updated_at", "updatedAt">>)),
          OrElse(toIsoTimestamp(getObjectValue(record, <<"fetched_at", "fetchedAt">>)),
                 publishedAt))
  IN Some([item |-> item, source |-> source, cursor |-> cursor])

\* The value under `key` of a JSON object, Undefined when it has none.
Member(value, key) ==
  IF value.t = "object" /\ key \in DOMAIN value.f THEN value.f[key] ELSE Undefined

extractPayloadItems(payload) ==
  IF payload.t = "array" THEN payload.v
  ELSE IF payload.t # "object" THEN <<>>
  ELSE IF Member(payload, "items").t = "array" THEN Member(payload, "items").v
  ELSE IF Member(payload, "data").t = "array" THEN Member(payload, "data").v
  ELSE IF Member(payload, "data").t = "object"
          /\ Member(Member(payload, "data"), "items").t = "array"
       THEN Member(Member(payload, "data"), "items").v
  ELSE <<>>

\* ---------------------------------------------------------- db.ts: the store

\* A table is the set of its rows.  An outcome of a store call is the tables it
\* leaves and the error it throws (Null when it returns).

NoError == Null
Thrown(message, subject, detail) ==
  Some([message |-> message, subject |-> subject, detail |-> detail])

IsBlank(s) == Trim(s) = <<>>

\* score = excluded.score: the incoming score always wins.
MergeScoreLatest(excluded, stored) == excluded

\* score = CASE WHEN excluded.score > items.score THEN excluded.score
\*         ELSE items.score END
MergeScore(excluded, stored) == IF excluded > stored THEN excluded ELSE stored

\* COALESCE(items.x, excluded.x): the operands the other way round.
CoalesceStoredFirst(excluded, stored) == IF stored # Null THEN stored ELSE excluded

\* COALESCE(excluded.x, items.x)
Coalesce(excluded, stored) == IF excluded # Null THEN excluded ELSE stored

\* The row INSERT would add: the bound parameters ?1..?11, the next rowid and
\* the column default of fetched_at.
InsertedItemRow(item, id, now) ==
  [ id |-> id,
    source_id |-> item.source_id,
    title |-> item.title,
    url |-> item.url,
    author |-> item.author,
    published_at |-> item.published_at,
    fetched_at |-> now,
    content_md |-> item.content_md,
    content_text |-> item.content_text,
    summary |-> item.summary,
    score |-> Get(OrElse(item.score, Some(0))),
    status |-> Get(OrElse(item.status, Some(Unread))),
    acted_at |-> item.acted_at ]

\* ON CONFLICT(url) DO UPDATE SET ..., with status and acted_at in the list.
ConflictItemRowWithStatus(row, excluded) ==
  [ row EXCEPT
      !.source_id = excluded.source_id,
      !.title = excluded.title,
      !.author = Coalesce(excluded.author, row.author),
      !.published_at = Coalesce(excluded.published_at, row.published_at),
      !.content_md = Coalesce(excluded.content_md, row.content_md),
      !.content_text = Coalesce(excluded.content_text, row.content_text),
      !.summary = Coalesce(excluded.summary, row.summary),
      !.score = MergeScore(excluded.score, row.score),
      !.fetched_at = excluded.fetched_at,
      !.status = excluded.status,
      !.acted_at = excluded.acted_at ]

\* ON CONFLICT(url) DO UPDATE SET ..., with title left out of the list.
ConflictItemRowKeepsTitle(row, excluded) ==
  [ row EXCEPT
      !.source_id = excluded.source_id,
      !.author = Coalesce(excluded.author, row.author),
      !.published_at = Coalesce(excluded.published_at, row.published_at),
      !.content_md = Coalesce(excluded.content_md, row.content_md),
      !.content_text = Coalesce(excluded.content_text, row.content_text),
      !.summary = Coalesce(excluded.summary, row.summary),
      !.score = MergeScore(excluded.score, row.score),
      !.fetched_at = excluded.fetched_at ]

\* ON CONFLICT(url) DO UPDATE SET ...
ConflictItemRow(row, excluded) ==
  [ row EXCEPT
      !.source_id = excluded.source_id,
      !.title = excluded.title,
      !.author = Coalesce(excluded.author, row.author),
      !.published_at = Coalesce(excluded.published_at, row.published_at),
      !.content_md = Coalesce(excluded.content_md, row.content_md),
      !.content_text = Coalesce(excluded.content_text, row.content_text),
      !.summary = Coalesce(excluded.summary, row.summary),
      !.score = MergeScore(excluded.score, row.score),
      !.fetched_at = excluded.fetched_at ]

\* INSERT INTO items over a url that is not UNIQUE: a row is always added.
InsertItemNoConflict(itemRows, excluded) == itemRows \cup {excluded}

\* INSERT OR REPLACE INTO items: a row with the url is deleted, then one is added.
InsertItemOrReplace(itemRows, excluded) ==
  { r \in itemRows : r.url # excluded.url } \cup {excluded}

\* INSERT INTO items ... ON CONFLICT(url) DO UPDATE: the items table after the
\* statement.  `url` is UNIQUE: a row with the url is updated, else one is added.
InsertItemOnConflict(itemRows, excluded) ==
  IF \E r \in itemRows : r.url = excluded.url
  THEN { IF r.url = excluded.url THEN ConflictItemRow(r, excluded) ELSE r : r \in itemRows }
  ELSE itemRows \cup {excluded}

\* upsertItem(item) against tables `db`, at instant `now`.
upsertItem(db, item, now) ==
  IF IsBlank(item.source_id)
  THEN [db |-> db, error |-> Thrown("upsertItem requires source_id", Null, Null)]
  ELSE IF IsBlank(item.url)
  THEN [db |-> db, error |-> Thrown("upsertItem requires url", Null, Null)]
  ELSE IF IsBlank(item.title)
  THEN [db |-> db, error |-> Thrown("upsertItem requires title", Null, Null)]
  ELSE IF ~ \E s \in db.sources : s.id = item.source_id
  THEN \* REFERENCES sources(id), with PRAGMA foreign_keys = ON
       [db |-> db,
        error |-> Thrown("Failed to upsert item", Some(item.url),
                         Some("FOREIGN KEY constraint failed"))]
  ELSE LET excluded == InsertedItemRow(item, db.nextItemId, now)
           inserted == ~ \E r \in db.items : r.url = item.url
       IN [db |-> [db EXCEPT !.items = InsertItemOnConflict(db.items, excluded),
                             !.nextItemId = IF inserted THEN @ + 1 ELSE @],
           error |-> NoError]

\* UPDATE items SET status = ?, acted_at = datetime('now'): no WHERE.
updateItemStatusEveryRow(db, url, status, now) ==
  IF ~ \E r \in db.items : r.url = url
  THEN [db |-> db, error |-> Thrown("No item found for url", Some(url), Null)]
  ELSE [db |-> [db EXCEPT !.items = { [r EXCEPT !.status = status, !.acted_at = Some(now)] :
                                        r \in db.items }],
        error |-> NoError]

\* UPDATE items SET status = ?, acted_at = datetime('now') WHERE url = ?
updateItemStatus(db, url, status, now) ==
  LET rowsAffected == Cardinality({r \in db.items : r.url = url})
      after == { IF r.url = url THEN [r EXCEPT !.status = status, !.acted_at = Some(now)]
                 ELSE r : r \in db.items }
  IN IF rowsAffected = 0
     THEN [db |-> db, error |-> Thrown("No item found for url", Some(url), Null)]
     ELSE [db |-> [db EXCEPT !.items = after], error |-> NoError]

\* SELECT * FROM sources, mapped by mapDbSource.
getSources(db) == db.sources

\* ON CONFLICT(id) DO UPDATE SET name, url, type, category, enabled
ConflictSourceRow(row, excluded) ==
  [ row EXCEPT
      !.name = excluded.name,
      !.url = excluded.url,
      !.type = excluded.type,
      !.category = excluded.category,
      !.enabled = excluded.enabled ]

InsertSourceOnConflict(sourceRows, excluded) ==
  IF \E r \in sourceRows : r.id = excluded.id
  THEN { IF r.id = excluded.id THEN ConflictSourceRow(r, excluded) ELSE r : r \in sourceRows }
  ELSE sourceRows \cup {excluded}

\* upsertSource(source) against tables `db`, at instant `now`.
upsertSource(db, source, now) ==
  IF IsBlank(source.id)
  THEN [db |-> db, error |-> Thrown("upsertSource requires id", Null, Null)]
  ELSE IF IsBlank(source.url)
  THEN [db |-> db, error |-> Thrown("upsertSource requires url", Null, Null)]
  ELSE IF IsBlank(source.name)
  THEN [db |-> db, error |-> Thrown("upsertSource requires name", Null, Null)]
  ELSE LET excluded ==
             [ id |-> source.id,
               name |-> source.name,
               url |-> source.url,
               type |-> source.type,
               category |-> source.category,
               enabled |-> ~ (source.enabled = Some(FALSE)),
               added_at |-> Get(OrElse(source.added_at, Some(now))) ]
       IN [db |-> [db EXCEPT !.sources = InsertSourceOnConflict(db.sources, excluded)],
           error |-> NoError]

LAST_SYNC_METADATA_KEY == "sync.last_success_at"

\* SELECT value FROM metadata WHERE key = ? LIMIT 1
getMetadataValue(db, key) ==
  IF \E m \in db.metadata : m.key = key
  THEN (CHOOSE m \in db.metadata : m.key = key).value
  ELSE Null

\* INSERT INTO metadata ... ON CONFLICT(key) DO UPDATE SET value = excluded.value
setMetadataValue(db, key, value) ==
  [db EXCEPT !.metadata =
     IF \E m \in db.metadata : m.key = key
     THEN { IF m.key = key THEN [m EXCEPT !.value = Some(value)] ELSE m : m \in db.metadata }
     ELSE db.metadata \cup {[key |-> key, value |-> Some(value)]}]

\* ------------------------------------------------------------------ inputs

TitleA == <<"A">>
TitleA2 == <<"A", "'">>
TitleB == <<"B">>
UrlA == <<"h","t","t","p",":","/","/","x","/","a">>
UrlB == <<"h","t","t","p",":","/","/","x","/","b">>
UrlYz == <<"h","t","t","p",":","/","/","y","-","z","/">>
SourceX == <<"x">>
SourceYz == <<"y","-","z">>
Y2024 == <<"2","0","2","4">>
Y2025 == <<"2","0","2","5">>
Y2026 == <<"2","0","2","6">>

\* The raw records a remote response is made of: one url delivered as A, then
\* as A' (the scenario of the specification, its scores 1 and 0.5 written 2 and
\* 1), each naming its source its own way.  A' was published after it was last
\* updated.
RawRecords ==
  { JObj([ title |-> JStr(TitleA), url |-> JStr(UrlA),
           source_name |-> JStr(<<"X">>),
           published_at |-> JStr(Y2024), score |-> JNum(2),
           author |-> JStr(<<"a">>), summary |-> JStr(<<"s">>) ]),
    JObj([ title |-> JStr(TitleA2),
           link |-> JStr(<<" ","H","T","T","P",":","/","/","X","/","a">>),
           source_url |-> JStr(<<"h","t","t","p",":","/","/","Y","-","z">>),
           type |-> JStr(Html), category |-> JStr(<<"T","e","c","h">>),
           publishedAt |-> JStr(Y2026), updated_at |-> JStr(Y2025),
           fetchedAt |-> JStr(Y2024), score |-> JStr(<<"1">>),
           summary |-> JStr(<<"t">>), content_md |-> JStr(<<"m">>), author |-> JNull,
           status |-> JStr(Read), actedAt |-> JStr(Y2024) ]) }

\* The first record of the scenario as the specification writes it: it names
\* no source.
RawNoSource ==
  JObj([ title |-> JStr(TitleA), url |-> JStr(UrlA),
         published_at |-> JStr(Y2024), score |-> JNum(2) ])

\* Records the normalizer has to reject: a blank title, no url, a relative url,
\* a title that is no string, and a number in place of a record.
RawBlankTitle ==
  JObj([ title |-> JStr(<<" ">>), url |-> JStr(UrlB), source_name |-> JStr(<<"X">>) ])
RawNoUrl == JObj([ title |-> JStr(TitleB), source_name |-> JStr(<<"X">>) ])
RawRelativeUrl ==
  JObj([ title |-> JStr(TitleB), link |-> JStr(<<"/","b">>), source_name |-> JStr(<<"X">>) ])
RawNumberTitle ==
  JObj([ title |-> JNum(5), url |-> JStr(UrlB), source_name |-> JStr(<<"X">>) ])
RawNumber == JNum(7)

\* Arrays of distinct raw records, in every order.
RawArrays ==
  { a \in UNION { [1..n -> RawRecords] : n \in 0..Cardinality(RawRecords) } :
      \A i, j \in DOMAIN a : a[i] = a[j] => i = j }

\* The JSON bodies of 2xx responses: bare arrays, an enveloped array that
\* begins with the record naming no source, a body holding no array, and an
\* enveloped array with one good record among five the normalizer rejects.
Payloads ==
  { JArr(a) : a \in RawArrays }
  \cup { JObj([data |-> JObj([items |-> JArr(<<RawNoSource>> \o a)])]) :
           a \in { b \in RawArrays : Len(b) = 1 } }
  \cup { JObj([results |-> JArr(a)]) : a \in { b \in RawArrays : Len(b) = 1 } }
  \cup { JObj([items |-> JArr(<<RawBlankTitle, RawNoUrl>> \o a
                               \o <<RawRelativeUrl, RawNumberTitle, RawNumber>>)]) :
           a \in { b \in RawArrays : Len(b) = 1 /\ b[1].f.title = JStr(TitleA) } }

\* Non-2xx responses.
FailureResponses == { [status |-> 500, body |-> "upstream down"] }

NoOptionals ==
  [ author |-> Null, published_at |-> Null, content_md |-> Null, content_text |-> Null,
    summary |-> Null, score |-> Null, status |-> Null, acted_at |-> Null ]

ItemInput(source_id, title, url, rest) ==
  [ source_id |-> source_id, title |-> title, url |-> url,
    author |-> rest.author, published_at |-> rest.published_at,
    content_md |-> rest.content_md, content_text |-> rest.content_text,
    summary |-> rest.summary, score |-> rest.score, status |-> rest.status,
    acted_at |-> rest.acted_at ]

\* The optional fields of direct upsertItem calls: all absent, all present
\* (twice, with different values), and a mix.
OptionalFields ==
  { NoOptionals,
    [ author |-> Some(<<"a">>), published_at |-> Some(1), content_md |-> Some(<<"m">>),
      content_text |-> Some(<<"t">>), summary |-> Some(<<"s">>), score |-> Some(2),
      status |-> Some(Saved), acted_at |-> Some(1) ],
    [ author |-> Some(<<"b">>), published_at |-> Some(2), content_md |-> Some(<<"n">>),
      content_text |-> Some(<<"u">>), summary |-> Some(<<>>), score |-> Some(1),
      status |-> Some(Read), acted_at |-> Null ],
    [ author |-> Some(<<"c">>), published_at |-> Null, content_md |-> Null,
      content_text |-> Some(<<"v">>), summary |-> Null, score |-> Some(0 - 1),
      status |-> Null, acted_at |-> Some(2) ] }

\* Arguments of direct upsertItem calls: two urls, a source that exists once
\* upserted and one that never does, and a blank title.
ItemInputs ==
  { ItemInput(SourceX, IF rest.score = Null THEN TitleA ELSE TitleA2, url, rest) :
      url \in {UrlA, UrlB}, rest \in OptionalFields }
  \cup { ItemInput(<<"q">>, TitleB, UrlB, NoOptionals),
         ItemInput(SourceYz, TitleB, UrlA, NoOptionals),
         ItemInput(SourceX, <<" ">>, UrlB, NoOptionals) }

\* Arguments of direct updateItemStatus calls.
StatusInputs == {UrlA, UrlB} \X {Read, Saved}

\* Arguments of direct upsertSource calls; the user switches a source off by
\* upserting it with enabled false.
SourceInputs ==
  { [ id |-> SourceX, name |-> <<"X">>, url |-> UrlA, type |-> Rss,
      category |-> General, enabled |-> Null, added_at |-> Null ],
    [ id |-> SourceX, name |-> <<"X","0">>, url |-> UrlB, type |-> Html,
      category |-> General, enabled |-> Some(FALSE), added_at |-> Some(1) ],
    [ id |-> SourceYz, name |-> <<"Y">>, url |-> UrlYz, type |-> Rss,
      category |-> General, enabled |-> Some(TRUE), added_at |-> Null ] }

\* The direct calls made while sync passes run: a second url is added, a row
\* is saved, a source is switched off.
SyncSideItems == { ItemInput(SourceX, TitleB, UrlB, NoOptionals) }
SyncSideStatus == { <<UrlA, Saved>>, <<UrlB, Saved>> }
SyncSideSources == { s \in SourceInputs : s.enabled = Some(FALSE) }

\* ------------------------------------------------------------------- state

VARIABLES
  db,            \* the store: [items, nextItemId, sources, metadata]
  now,           \* the device clock, an instant
  ops,           \* calls made so far
  pc,            \* where the sync pass is: idle, fetching, sources, items, cursor
  request,       \* the request of the pass: [since]
  previousSync,  \* syncFromVps: the cursor read at the start of the pass
  rawCount,      \* syncFromVps: rawItems.length
  candidates,    \* syncFromVps: the accepted candidates, in payload order
  existingSources, \* syncFromVps: the rows getSources returned
  sourceQueue,   \* syncFromVps: sourcesById.values() still to upsert
  itemIndex,     \* syncFromVps: candidates upserted so far
  cursor,        \* syncFromVps: the largest candidate cursor so far
  outcome,       \* what the last finished pass returned or threw
  called,        \* the last direct call and what it returned or threw
  lastUpsert,    \* history: the last upsertItem call, the items before and after it
  acceptedUrls,  \* history: the urls upsertItem has accepted
  passes         \* history: the latest pass and the one before it

vars ==
  << db, now, ops, pc, request, previousSync, rawCount, candidates, existingSources,
     sourceQueue, itemIndex, cursor, outcome, called, lastUpsert, acceptedUrls, passes >>

syncVars ==
  << request, previousSync, rawCount, candidates, existingSources, sourceQueue,
     itemIndex, cursor, outcome >>

\* The page (page.tsx): its React state, its refs and the local storage.
VARIABLES
  settingsHydrated, \* useState: the mount effect has read the local storage
  triageByLink,     \* useState: link -> [bucket, read]
  activeBucket,     \* useState: the lane shown
  storedTriage      \* localStorage["personal-feed:triageByLink:v1"], Null if absent

triageVars == << settingsHydrated, triageByLink, activeBucket, storedTriage >>

VARIABLES
  sourcesGloballyEnabled, \* useState: the global switch of the sources
  isFetching,       \* isFetchingRef.current
  fetchRunId,       \* fetchRunIdRef.current
  hasLoaded,        \* hasLoadedRef.current
  cycle,            \* the fetchFeeds call in flight: its closure and its fetches
  feedItems,        \* useState items: the list shown
  feedIssues,       \* useState
  feedError,        \* useState error
  loading,          \* useState
  isRefreshing,     \* useState
  feedHealth,       \* useState: feed id -> [status, lastError, lastItemsCount]
  requests,         \* history: calls of fetchFeeds so far
  lastRequest,      \* history: what the last call of fetchFeeds found and did
  inFlight,         \* history: cycles started and not yet ended
  lastApplied       \* history: the results the last cycle applied, and the list

refreshState ==
  << isFetching, fetchRunId, hasLoaded, cycle, feedItems, feedIssues, feedError, loading,
     isRefreshing, feedHealth, inFlight, lastApplied >>

refreshVars == << sourcesGloballyEnabled, requests, lastRequest, refreshState >>

\* A pure function of sync.ts applied to one input.
VARIABLES
  applied           \* Null, or [fn, input, output] of the last application

pureVars == << applied >>

\* One call of discoverRssFeed (page.tsx).
VARIABLES
  dInput,           \* Null, or the input of the call
  dQueue,           \* queue
  dSeen,            \* seen
  dFetching,        \* Null, or the candidate whose fetch is awaited
  dResult,          \* Null, or what the call returned or threw
  dEnqueued,        \* history: every url the queue has held
  dFetched,         \* history: url -> fetches started
  dFeeds,           \* history: the urls whose body was a feed document
  dFailed           \* history: the urls whose fetch failed

discoverVars ==
  << dInput, dQueue, dSeen, dFetching, dResult, dEnqueued, dFetched, dFeeds, dFailed >>

\* The initialization (db-init.ts, db-seed.ts) and the schema it migrates.
VARIABLES
  initializationPromise, \* Null, or the run the memo holds
  runs,             \* the runs of the initialization, oldest first
  sql,              \* the schema: [schema, pending, inTxn, log]
  passOwner,        \* who awaits the sync pass in flight: Null, or "init" or "resync"
  otherAwait,       \* another caller of initializeDb: Null, or the run it awaits
  lastCall          \* history: what the last call of initializeDb found and returned

initVars == << initializationPromise, runs, sql, passOwner, otherAwait, lastCall >>

\* One useSync instance (hooks/useSync.ts).
VARIABLES
  effectActive,     \* the mount effect has run and its cleanup has not
  mountedRef,       \* mountedRef.current
  syncingRef,       \* syncingRef.current
  hookAwaits,       \* the awaits of the instance that have not settled
  hookState,        \* useState: [syncing, lastSync, itemCount, error]
  lastResync        \* history: what the last call of resync found and did

hookVars == << effectActive, mountedRef, syncingRef, hookAwaits, hookState, lastResync >>

appVars == << initVars, hookVars >>

restVars == << pureVars, discoverVars, appVars >>

pageVars == << triageVars, refreshVars, restVars >>

EmptyDb == [items |-> {}, nextItemId |-> 1, sources |-> {}, metadata |-> {}]

Init ==
  /\ db = EmptyDb
  /\ now = 3
  /\ ops = 0
  /\ pc = "idle"
  /\ request = Null
  /\ previousSync = Null
  /\ rawCount = 0
  /\ candidates = <<>>
  /\ existingSources = {}
  /\ sourceQueue = <<>>
  /\ itemIndex = 0
  /\ cursor = Null
  /\ outcome = Null
  /\ called = Null
  /\ lastUpsert = Null
  /\ acceptedUrls = {}
  /\ passes = <<>>
  /\ settingsHydrated = FALSE
  /\ triageByLink = <<>>
  /\ activeBucket = "inbox"
  /\ storedTriage = Null
  /\ sourcesGloballyEnabled = TRUE
  /\ isFetching = FALSE
  /\ fetchRunId = 0
  /\ hasLoaded = FALSE
  /\ cycle = Null
  /\ feedItems = <<>>
  /\ feedIssues = <<>>
  /\ feedError = Null
  /\ loading = TRUE
  /\ isRefreshing = FALSE
  /\ feedHealth = <<>>
  /\ requests = 0
  /\ lastRequest = Null
  /\ inFlight = 0
  /\ lastApplied = Null
  /\ applied = Null
  /\ dInput = Null
  /\ dQueue = <<>>
  /\ dSeen = {}
  /\ dFetching = Null
  /\ dResult = Null
  /\ dEnqueued = {}
  /\ dFetched = <<>>
  /\ dFeeds = {}
  /\ dFailed = {}
  /\ initializationPromise = Null
  /\ runs = <<>>
  /\ sql = [schema |-> {}, pending |-> {}, inTxn |-> FALSE, log |-> <<>>]
  /\ passOwner = Null
  /\ otherAwait = {}
  /\ lastCall = Null
  /\ effectActive = FALSE
  /\ mountedRef = TRUE
  /\ syncingRef = FALSE
  /\ hookAwaits = {}
  /\ hookState = [syncing |-> FALSE, lastSync |-> Null, itemCount |-> 0, error |-> Null]
  /\ lastResync = Null

\* ----------------------------------------------------------------- history

\* `passes` holds, newest first, the latest pass and the one before it: the
\* store the pass started from, the cursor it requested, the raw records it
\* received, the candidates it accepted with the timestamps their raw records
\* carried, and how it ended.
\* A direct call that changes the store empties it: what it holds is a run of
\* passes with no other write in between.
StartedPass(since) ==
  [ before |-> db, since |-> since, raw |-> <<>>, accepted |-> <<>>, seen |-> <<>>,
    state |-> "running",
    error |-> NoError ]

PassesOnStart(since) ==
  IF passes # <<>> THEN <<StartedPass(since), Head(passes)>> ELSE <<StartedPass(since)>>

PassesOnAccept(raw, cands, seen) ==
  IF passes = <<>> THEN passes
  ELSE <<[Head(passes) EXCEPT !.raw = raw, !.accepted = cands, !.seen = seen]>>
       \o Tail(passes)

PassesOnEnd(state, error) ==
  IF passes = <<>> THEN passes
  ELSE <<[Head(passes) EXCEPT !.state = state, !.error = error]>> \o Tail(passes)

PassesOnDirect(after) == IF after = db THEN passes ELSE <<>>

UpsertRecord(item, r) ==
  Some([item |-> item, before |-> db.items, after |-> r.db.items, error |-> r.error])

AcceptedAfter(item, r) ==
  IF r.error = NoError THEN acceptedUrls \cup {item.url} ELSE acceptedUrls

\* ---------------------------------------------------------------- sync pass

\* sourcesById.values(): one entry per source id, in the order the ids first
\* appear, each holding the source of the last candidate with that id.
RECURSIVE SourcesById(_, _)
SourcesById(cands, seen) ==
  IF cands = <<>> THEN <<>>
  ELSE LET id == Head(cands).source.id
           last == CHOOSE i \in DOMAIN cands :
                     /\ cands[i].source.id = id
                     /\ \A j \in DOMAIN cands : cands[j].source.id = id => j <= i
       IN IF id \in seen THEN SourcesById(Tail(cands), seen)
          ELSE <<cands[last].source>> \o SourcesById(Tail(cands), seen \cup {id})

\* rawItems.map(normalizeSyncCandidate).filter(candidate => candidate !== null)
RECURSIVE Candidates(_)
Candidates(rawItems) ==
  IF rawItems = <<>> THEN <<>>
  ELSE LET candidate == normalizeSyncCandidate(Head(rawItems))
       IN (IF candidate # Null THEN <<Get(candidate)>> ELSE <<>>) \o Candidates(Tail(rawItems))

\* The timestamps a raw record carries, as the normalizer reads them.
Stamps(raw) ==
  [ published_at |->
      toIsoTimestamp(getObjectValue(RecordOf(raw), <<"published_at", "publishedAt", "pubDate">>)),
    updated_at |-> toIsoTimestamp(getObjectValue(RecordOf(raw), <<"updated_at", "updatedAt">>)),
    fetched_at |-> toIsoTimestamp(getObjectValue(RecordOf(raw), <<"fetched_at", "fetchedAt">>)) ]

\* The timestamps of the raw records the normalizer accepts, in payload order.
RECURSIVE AcceptedStamps(_)
AcceptedStamps(rawItems) ==
  IF rawItems = <<>> THEN <<>>
  ELSE (IF normalizeSyncCandidate(Head(rawItems)) # Null
        THEN <<Stamps(Head(rawItems))>> ELSE <<>>) \o AcceptedStamps(Tail(rawItems))

\* What syncFromVps computes from a 2xx JSON body before it touches the store.
ParsePayload(payload) ==
  LET rawItems == extractPayloadItems(payload)
      cands == Candidates(rawItems)
  IN [ rawItems |-> rawItems,
       rawCount |-> Len(rawItems),
       candidates |-> cands,
       queue |-> SourcesById(cands, {}),
       seen |-> AcceptedStamps(rawItems) ]

\* The same, for every body the remote may send (computed once).
ParsedPayloads == { ParsePayload(payload) : payload \in Payloads }

\* The loops in the other order: items first, sources after them.
PcAfterItemsFirst(queue, cands, index) ==
  IF index < Len(cands) THEN "items"
  ELSE IF queue # <<>> THEN "sources"
  ELSE "cursor"

\* The position once a loop has nothing left.
PcAfter(queue, cands, index) ==
  IF queue # <<>> THEN "sources"
  ELSE IF index < Len(cands) THEN "items"
  ELSE "cursor"

\* getMetadataValue, then the request is sent.
SyncStartCore ==
  /\ pc = "idle"
  /\ now' = now + 1
  /\ pc' = "fetching"
  /\ previousSync' = getMetadataValue(db, LAST_SYNC_METADATA_KEY)
  /\ request' = Some([since |-> previousSync'])
  /\ passes' = PassesOnStart(previousSync')
  /\ UNCHANGED << db, rawCount, candidates, existingSources, sourceQueue, itemIndex,
                  cursor, outcome, called, lastUpsert, acceptedUrls >>

\* A call of syncFromVps.
SyncStart ==
  /\ ops < MaxOps
  /\ ops' = ops + 1
  /\ SyncStartCore
  /\ UNCHANGED pageVars

\* syncFromVps rejects with `error`.
Throw(error) ==
  /\ pc' = "idle"
  /\ outcome' = [ok |-> FALSE, error |-> error]
  /\ passes' = PassesOnEnd("failed", error)

\* fetch rejects: no response at all.
SyncFetchRejects ==
  /\ pc = "fetching"
  /\ Throw(Thrown("fetch failed", Null, Null))
  /\ UNCHANGED << db, now, ops, request, previousSync, rawCount, candidates,
                  existingSources, sourceQueue, itemIndex, cursor, called, lastUpsert,
                  acceptedUrls >>
  /\ UNCHANGED pageVars

\* new Error("Sync request failed"): neither status nor body.
SyncRequestErrorNoDetails(response) == Thrown("Sync request failed", Null, Null)

\* new Error(`Sync request failed (${response.status}): ${details}`)
SyncRequestError(response) ==
  Thrown("Sync request failed", Some(response.status), Some(response.body))

\* !response.ok
SyncNotOk ==
  /\ pc = "fetching"
  /\ \E response \in FailureResponses : Throw(SyncRequestError(response))
  /\ UNCHANGED << db, now, ops, request, previousSync, rawCount, candidates,
                  existingSources, sourceQueue, itemIndex, cursor, called, lastUpsert,
                  acceptedUrls >>
  /\ UNCHANGED pageVars

\* response.json() rejects: the body is no JSON.
SyncJsonRejects ==
  /\ pc = "fetching"
  /\ Throw(Thrown("Unexpected token", Null, Null))
  /\ UNCHANGED << db, now, ops, request, previousSync, rawCount, candidates,
                  existingSources, sourceQueue, itemIndex, cursor, called, lastUpsert,
                  acceptedUrls >>
  /\ UNCHANGED pageVars

\* A 2xx JSON body: extract, normalize, read the sources, build sourcesById.
SyncReceive ==
  /\ pc = "fetching"
  /\ \E parsed \in ParsedPayloads :
       /\ rawCount' = parsed.rawCount
       /\ candidates' = parsed.candidates
       /\ existingSources' = getSources(db)
       /\ sourceQueue' = parsed.queue
       /\ pc' = PcAfter(parsed.queue, parsed.candidates, 0)
       /\ passes' = PassesOnAccept(parsed.rawItems, parsed.candidates, parsed.seen)
  /\ itemIndex' = 0
  /\ cursor' = Null
  /\ UNCHANGED << db, now, ops, request, previousSync, outcome, called, lastUpsert,
                  acceptedUrls >>
  /\ UNCHANGED pageVars

\* enabled: existingSource?.enabled || source.enabled
MergeExistingOr(source, existing) ==
  IF \E e \in existing : e.id = source.id
  THEN LET e == CHOOSE e \in existing : e.id = source.id
       IN [source EXCEPT !.enabled = Some(e.enabled \/ Get(source.enabled)),
                         !.added_at = Some(e.added_at)]
  ELSE source

\* { ...source, enabled: existingSource?.enabled ?? source.enabled,
\*   added_at: existingSource?.added_at ?? source.added_at }
MergeExisting(source, existing) ==
  IF \E e \in existing : e.id = source.id
  THEN LET e == CHOOSE e \in existing : e.id = source.id
       IN [source EXCEPT !.enabled = Some(e.enabled), !.added_at = Some(e.added_at)]
  ELSE source

\* One turn of the source loop.
SyncUpsertSource ==
  /\ pc = "sources"
  /\ LET source == Head(sourceQueue)
         r == upsertSource(db, MergeExisting(source, existingSources), now)
     IN IF r.error # NoError
        THEN /\ Throw(r.error)
             /\ UNCHANGED << db, sourceQueue >>
        ELSE /\ db' = r.db
             /\ sourceQueue' = Tail(sourceQueue)
             /\ pc' = PcAfter(Tail(sourceQueue), candidates, itemIndex)
             /\ UNCHANGED << outcome, passes >>
  /\ UNCHANGED << now, ops, request, previousSync, rawCount, candidates, existingSources,
                  itemIndex, cursor, called, lastUpsert, acceptedUrls >>
  /\ UNCHANGED pageVars

\* if (candidate.cursor) cursor = candidate.cursor: no comparison.
AdvanceCursorToLatest(cur, candidateCursor) ==
  IF candidateCursor # Null THEN candidateCursor ELSE cur

\* if (candidate.cursor && (!cursor || candidate.cursor > cursor)) cursor = candidate.cursor
AdvanceCursor(cur, candidateCursor) ==
  IF candidateCursor # Null /\ (cur = Null \/ Get(candidateCursor) > Get(cur))
  THEN candidateCursor ELSE cur

\* One turn of the item loop.
SyncUpsertItem ==
  /\ pc = "items"
  /\ LET candidate == candidates[itemIndex + 1]
         r == upsertItem(db, candidate.item, now)
     IN /\ lastUpsert' = UpsertRecord(candidate.item, r)
        /\ acceptedUrls' = AcceptedAfter(candidate.item, r)
        /\ IF r.error # NoError
           THEN /\ Throw(r.error)
                /\ UNCHANGED << db, itemIndex, cursor >>
           ELSE /\ db' = r.db
                /\ itemIndex' = itemIndex + 1
                /\ cursor' = AdvanceCursor(cursor, candidate.cursor)
                /\ pc' = PcAfter(sourceQueue, candidates, itemIndex + 1)
                /\ UNCHANGED << outcome, passes >>
  /\ UNCHANGED << now, ops, request, previousSync, rawCount, candidates, existingSources,
                  sourceQueue, called >>
  /\ UNCHANGED pageVars

\* const lastSync = cursor ?? new Date().toISOString()
LastSync(cur, clock) == Get(OrElse(cur, Some(clock)))

\* setMetadataValue, then the summary is returned.
SyncFinish ==
  /\ pc = "cursor"
  /\ LET lastSync == LastSync(cursor, now)
     IN /\ db' = setMetadataValue(db, LAST_SYNC_METADATA_KEY, lastSync)
        /\ outcome' = [ ok |-> TRUE,
                        lastSync |-> lastSync,
                        previousSync |-> previousSync,
                        itemCount |-> itemIndex,
                        skippedCount |-> rawCount - Len(candidates) ]
  /\ pc' = "idle"
  /\ passes' = PassesOnEnd("ok", NoError)
  /\ UNCHANGED << now, ops, request, previousSync, rawCount, candidates, existingSources,
                  sourceQueue, itemIndex, cursor, called, lastUpsert, acceptedUrls >>
  /\ UNCHANGED pageVars

\* -------------------------------------------------------------- direct calls

\* A call of the store's API from outside the sync pass; `r` is its outcome.
Direct(name, arg, r) ==
  /\ ops < MaxOps
  /\ ops' = ops + 1
  /\ now' = now + 1
  /\ db' = r.db
  /\ called' = Some([name |-> name, arg |-> arg, error |-> r.error])
  /\ passes' = PassesOnDirect(r.db)
  /\ UNCHANGED pc
  /\ UNCHANGED syncVars
  /\ UNCHANGED pageVars

CallUpsertItem(inputs) ==
  \E item \in inputs :
    LET r == upsertItem(db, item, now + 1)
    IN /\ Direct("upsertItem", item, r)
       /\ lastUpsert' = UpsertRecord(item, r)
       /\ acceptedUrls' = AcceptedAfter(item, r)

CallUpdateItemStatus(inputs) ==
  \E arg \in inputs :
    /\ Direct("updateItemStatus", arg, updateItemStatus(db, arg[1], arg[2], now + 1))
    /\ UNCHANGED << lastUpsert, acceptedUrls >>

CallUpsertSource(inputs) ==
  \E source \in inputs :
    /\ Direct("upsertSource", source, upsertSource(db, source, now + 1))
    /\ UNCHANGED << lastUpsert, acceptedUrls >>

SyncPass ==
  \/ SyncStart
  \/ SyncFetchRejects
  \/ SyncNotOk
  \/ SyncJsonRejects
  \/ SyncReceive
  \/ SyncUpsertSource
  \/ SyncUpsertItem
  \/ SyncFinish

\* Sync passes, and direct calls between their steps.
Next ==
  \/ SyncPass
  \/ CallUpsertItem(SyncSideItems)
  \/ CallUpdateItemStatus(SyncSideStatus)
  \/ CallUpsertSource(SyncSideSources)

Spec == Init /\ [][Next]_vars

\* Direct calls only, with every argument.
NextStore ==
  \/ CallUpsertItem(ItemInputs)
  \/ CallUpdateItemStatus(StatusInputs)
  \/ CallUpsertSource(SourceInputs)

SpecStore == Init /\ [][NextStore]_vars

\* --------------------------------------------------------------- properties

RowOf(rows, url) == CHOOSE r \in rows : r.url = url

\* The score upsertItem binds: item.score ?? 0
BoundScore(item) == Get(OrElse(item.score, Some(0)))

\* The last upsertItem call was accepted and found a row with its url.
UpsertedExisting ==
  /\ lastUpsert # Null
  /\ Get(lastUpsert).error = NoError
  /\ \E b \in Get(lastUpsert).before : b.url = Get(lastUpsert).item.url

\* C1: the items table holds exactly one row for every url upsertItem has
\* accepted, whatever mix of direct calls and sync passes delivered it; an
\* upsert of a url that has a row updates that row and adds none.
OneRowPerUrl ==
  /\ \A r1, r2 \in db.items : r1.url = r2.url => r1 = r2
  /\ \A u \in acceptedUrls : Cardinality({ r \in db.items : r.url = u }) = 1
  /\ { r.url : r \in db.items } = acceptedUrls
  /\ UpsertedExisting =>
       LET u == Get(lastUpsert)
       IN /\ Cardinality(u.after) = Cardinality(u.before)
          /\ { r.id : r \in u.after } = { r.id : r \in u.before }

\* A sync pass has upserted a url that already had a row, beside another row.
OneRowPerUrlWitness ==
  /\ UpsertedExisting
  /\ pc # "idle"
  /\ itemIndex > 0
  /\ Cardinality(db.items) = 2

\* C2: after upsertItem on a url that has a row, the stored score is the larger
\* of the stored and the incoming score; no upsertItem call lowers a score.
ScoreIsMaximum ==
  lastUpsert # Null =>
    LET u == Get(lastUpsert)
    IN \A b \in u.before :
         \E a \in u.after :
           /\ a.url = b.url
           /\ a.score >= b.score
           /\ (u.error = NoError /\ b.url = u.item.url)
                => a.score = Max(b.score, BoundScore(u.item))

\* An upsert brought a lower score than the stored one, another a higher one.
ScoreIsMaximumWitness ==
  /\ UpsertedExisting
  /\ BoundScore(Get(lastUpsert).item) < 0
  /\ RowOf(Get(lastUpsert).before, Get(lastUpsert).item.url).score > 0

\* C3: upsertItem on a url that has a row leaves its status and acted_at as
\* they were, so what updateItemStatus set is still there after a later sync
\* pass that delivers the url.
StatusSurvivesUpsert ==
  /\ lastUpsert # Null =>
       \A b \in Get(lastUpsert).before :
         \E a \in Get(lastUpsert).after :
           a.url = b.url /\ a.status = b.status /\ a.acted_at = b.acted_at
  /\ (passes # <<>> /\ Head(passes).state = "ok") =>
       \A b \in Head(passes).before.items :
         \E a \in db.items :
           a.url = b.url /\ a.status = b.status /\ a.acted_at = b.acted_at

\* updateItemStatus saved a row; a later pass delivered its url as read, with
\* an acted_at of its own, and finished.
StatusSurvivesUpsertWitness ==
  /\ called # Null
  /\ Get(called).name = "updateItemStatus"
  /\ Get(called).error = NoError
  /\ passes # <<>>
  /\ Head(passes).state = "ok"
  /\ \E b \in Head(passes).before.items :
       /\ b.status = Saved
       /\ b.acted_at # Null
       /\ \E i \in DOMAIN Head(passes).accepted :
            LET item == Head(passes).accepted[i].item
            IN /\ item.url = b.url
               /\ item.status = Some(Read)
               /\ item.acted_at # Null
               /\ item.acted_at # b.acted_at
       /\ RowOf(db.items, b.url).status = Saved

CoalescedFields == {"author", "published_at", "content_md", "content_text", "summary"}

\* C4: upsertItem on a url that has a row never turns author, published_at,
\* content_md, content_text or summary from non-null to null; a non-null
\* incoming value replaces the stored one, a null one keeps it.
CoalesceKeepsStored ==
  UpsertedExisting =>
    LET u == Get(lastUpsert)
        b == RowOf(u.before, u.item.url)
    IN \E a \in u.after :
         /\ a.url = b.url
         /\ \A f \in CoalescedFields :
              /\ b[f] # Null => a[f] # Null
              /\ u.item[f] # Null => a[f] = u.item[f]
              /\ u.item[f] = Null => a[f] = b[f]

\* An upsert with a null published_at and a new content_text met a row that
\* had both.
CoalesceKeepsStoredWitness ==
  /\ UpsertedExisting
  /\ LET u == Get(lastUpsert)
         b == RowOf(u.before, u.item.url)
     IN /\ b.published_at # Null
        /\ u.item.published_at = Null
        /\ b.content_text # Null
        /\ u.item.content_text # Null
        /\ u.item.content_text # b.content_text

\* The latest pass finished, and so did the one before it, with no other write
\* to the store since that one began.
TwoPassesDone ==
  /\ Len(passes) = 2
  /\ passes[1].state = "ok"
  /\ passes[2].state = "ok"

\* The candidates of pass `p` that carry `url`, in payload order.
Deliveries(p, url) == SelectSeq(p.accepted, LAMBDA c : c.item.url = url)

DeliveredUrls(p) == { p.accepted[i].item.url : i \in DOMAIN p.accepted }

\* The scores a url has met by the end of two passes: the one stored before
\* the first, and every delivered one.
ScoresMet(url) ==
  { b.score : b \in { r \in passes[2].before.items : r.url = url } }
  \cup { BoundScore(passes[2].accepted[i].item) :
           i \in { j \in DOMAIN passes[2].accepted : passes[2].accepted[j].item.url = url } }
  \cup { BoundScore(passes[1].accepted[i].item) :
           i \in { j \in DOMAIN passes[1].accepted : passes[1].accepted[j].item.url = url } }

\* C5: after two successive sync passes that deliver the same url, the row's
\* title and source_id are those of the second delivery, its published_at is
\* the second delivery's when that is non-null, and its score is the largest
\* score delivered (or stored before the first pass).
SecondDeliveryWins ==
  TwoPassesDone =>
    \A url \in DeliveredUrls(passes[1]) \cap DeliveredUrls(passes[2]) :
      LET second == Deliveries(passes[1], url)
          item == second[Len(second)].item
          row == RowOf(db.items, url)
      IN /\ row.title = item.title
         /\ row.source_id = item.source_id
         /\ item.published_at # Null => row.published_at = item.published_at
         /\ \A score \in ScoresMet(url) : row.score >= score
         /\ row.score \in ScoresMet(url)

\* The scenario: a new url delivered as A with score 2 and published 2024,
\* then as A' with score 1 and published 2026.
SecondDeliveryWinsWitness ==
  /\ TwoPassesDone
  /\ passes[2].before.items = {}
  /\ Len(passes[2].accepted) = 1
  /\ Len(passes[1].accepted) = 1
  /\ passes[2].accepted[1].item.title = TitleA
  /\ passes[2].accepted[1].item.score = Some(2)
  /\ passes[1].accepted[1].item.title = TitleA2
  /\ passes[1].accepted[1].item.score = Some(1)
  /\ passes[1].accepted[1].item.source_id # passes[2].accepted[1].item.source_id
  /\ \E row \in db.items :
       /\ row.url = UrlA
       /\ row.title = TitleA2
       /\ row.source_id = SourceYz
       /\ row.published_at = Some(3)
       /\ row.score = 2

WithoutFetchedAt(rows) == { [r EXCEPT !.fetched_at = 0] : r \in rows }

\* C6: when a pass accepts the same payload as the pass before it, it leaves
\* the item rows and the source rows as that pass left them, fetched_at aside.
SamePayloadTwice ==
  (TwoPassesDone /\ passes[1].accepted = passes[2].accepted) =>
    /\ WithoutFetchedAt(db.items) = WithoutFetchedAt(passes[1].before.items)
    /\ db.nextItemId = passes[1].before.nextItemId
    /\ db.sources = passes[1].before.sources

\* The same payload came twice, with two records for one url, and the second
\* pass refreshed fetched_at.
SamePayloadTwiceWitness ==
  /\ TwoPassesDone
  /\ passes[1].accepted = passes[2].accepted
  /\ Len(passes[1].accepted) = 2
  /\ passes[1].accepted[1].item.url = passes[1].accepted[2].item.url
  /\ db.items # passes[1].before.items

StoredCursor == getMetadataValue(db, LAST_SYNC_METADATA_KEY)

\* The latest pass finished and nothing else wrote to the store since it began.
PassDone == passes # <<>> /\ Head(passes).state = "ok"

\* C7: the cursor a successful pass stores is not older than the cursor the
\* pass started from.
CursorNeverMovesBack ==
  (PassDone /\ Head(passes).since # Null) =>
    Get(StoredCursor) >= Get(Head(passes).since)

\* C8, as stated: after a successful pass the stored cursor is not older than
\* any published_at or updated_at an accepted candidate carried.
CursorCoversPublishedAndUpdated ==
  PassDone =>
    \A i \in DOMAIN Head(passes).seen :
      LET stamps == Head(passes).seen[i]
      IN /\ stamps.published_at # Null => Get(StoredCursor) >= Get(stamps.published_at)
         /\ stamps.updated_at # Null => Get(StoredCursor) >= Get(stamps.updated_at)

\* The timestamp of a candidate the pass compares: its updated_at, else its
\* fetched_at, else its published_at.
CursorStamp(stamps) ==
  IF stamps.updated_at # Null THEN stamps.updated_at
  ELSE IF stamps.fetched_at # Null THEN stamps.fetched_at
  ELSE stamps.published_at

\* C8, amended: after a successful pass the stored cursor is not older than the
\* updated_at of any accepted candidate, nor than the fetched_at of one with no
\* updated_at, nor than the published_at of one with neither.
CursorCoversCursorStamps ==
  PassDone =>
    \A i \in DOMAIN Head(passes).seen :
      CursorStamp(Head(passes).seen[i]) # Null
        => Get(StoredCursor) >= Get(CursorStamp(Head(passes).seen[i]))

\* A pass accepted a candidate updated before it was published, and stored a
\* cursor between the two.
CursorCoversCursorStampsWitness ==
  /\ PassDone
  /\ \E i \in DOMAIN Head(passes).seen :
       LET stamps == Head(passes).seen[i]
       IN /\ stamps.updated_at # Null
          /\ stamps.published_at # Null
          /\ Get(StoredCursor) >= Get(stamps.updated_at)
          /\ Get(StoredCursor) < Get(stamps.published_at)

\* The pass ended on a non-2xx response.
IsRequestFailure(p) ==
  p.state = "failed" /\ p.error # NoError /\ Get(p.error).message = "Sync request failed"

\* C9: a pass whose response is not 2xx throws an error that carries the status
\* and the body, leaves the store as it was when the pass began, and the next
\* pass requests the cursor the failed one requested.
FailedRequestWritesNothing ==
  /\ (passes # <<>> /\ IsRequestFailure(Head(passes))) =>
       /\ outcome = [ok |-> FALSE, error |-> Head(passes).error]
       /\ \E response \in FailureResponses :
            /\ Get(outcome.error).subject = Some(response.status)
            /\ Get(outcome.error).detail = Some(response.body)
       /\ db = Head(passes).before
  /\ (Len(passes) = 2 /\ IsRequestFailure(passes[2])) =>
       /\ passes[1].since = passes[2].since
       /\ passes[1].before = passes[2].before

\* A pass stored a cursor, the next one got a non-2xx response, and a third
\* has sent its request.
FailedRequestWritesNothingWitness ==
  /\ Len(passes) = 2
  /\ IsRequestFailure(passes[2])
  /\ passes[2].since # Null
  /\ passes[2].before.items # {}
  /\ pc = "fetching"
  /\ request = Some([since |-> passes[2].since])

\* The source the candidates of pass `p` give for `id`: the last one's.
Mentioned(p, id) == { i \in DOMAIN p.accepted : p.accepted[i].source.id = id }

LastMention(p, id) ==
  p.accepted[CHOOSE i \in Mentioned(p, id) : \A j \in Mentioned(p, id) : j <= i].source

\* C10: a source row that is disabled when a pass begins is disabled when it
\* ends, with the added_at it had, and with the name, url, type and category of
\* the payload when the payload mentions it.
DisabledStaysDisabled ==
  PassDone =>
    \A b \in Head(passes).before.sources :
      b.enabled = FALSE =>
        \E a \in db.sources :
          /\ a.id = b.id
          /\ a.enabled = FALSE
          /\ a.added_at = b.added_at
          /\ Mentioned(Head(passes), b.id) # {} =>
               LET source == LastMention(Head(passes), b.id)
               IN /\ a.name = source.name
                  /\ a.url = source.url
                  /\ a.type = source.type
                  /\ a.category = source.category

\* A pass mentioned a disabled source under another name and url.
DisabledStaysDisabledWitness ==
  /\ PassDone
  /\ \E b \in Head(passes).before.sources :
       /\ b.enabled = FALSE
       /\ Mentioned(Head(passes), b.id) # {}
       /\ LastMention(Head(passes), b.id).enabled = Some(TRUE)
       /\ \E a \in db.sources :
            /\ a.id = b.id
            /\ a.name # b.name
            /\ a.url # b.url
            /\ a.enabled = FALSE
            /\ a.added_at = b.added_at

\* This step is a direct call of `name`.
IsDirectCall(name) ==
  /\ ops' # ops
  /\ pc' = pc
  /\ called' # Null
  /\ Get(called').name = name

\* C11: updateItemStatus on a url that has no row throws a not-found error
\* naming the url and leaves the store as it was; on a url that has a row it
\* sets that row's status, stamps its acted_at and changes nothing else.
UpdateItemStatusEffect ==
  [][ IsDirectCall("updateItemStatus") =>
        LET url == Get(called').arg[1]
            status == Get(called').arg[2]
            error == Get(called').error
        IN IF ~ \E r \in db.items : r.url = url
           THEN /\ error = Thrown("No item found for url", Some(url), Null)
                /\ db' = db
           ELSE /\ error = NoError
                /\ db'.sources = db.sources
                /\ db'.metadata = db.metadata
                /\ db'.nextItemId = db.nextItemId
                /\ Cardinality(db'.items) = Cardinality(db.items)
                /\ \A r \in db.items :
                     IF r.url = url
                     THEN [r EXCEPT !.status = status, !.acted_at = Some(now')] \in db'.items
                     ELSE r \in db'.items ]_vars

\* updateItemStatus saved one of two rows, and the other is as it was: unread
\* and never acted on.
UpdateItemStatusEffectWitness ==
  /\ called # Null
  /\ Get(called).name = "updateItemStatus"
  /\ Get(called).error = NoError
  /\ Cardinality(db.items) = 2
  /\ \E a, b \in db.items :
       /\ a.url = Get(called).arg[1]
       /\ a.status = Saved
       /\ a.acted_at = Some(now)
       /\ b.url # a.url
       /\ b.status = Unread
       /\ b.acted_at = Null

\* The last upsertItem call had a source_id, url or title that trims to nothing.
UpsertedBlank ==
  /\ lastUpsert # Null
  /\ \/ IsBlank(Get(lastUpsert).item.source_id)
     \/ IsBlank(Get(lastUpsert).item.url)
     \/ IsBlank(Get(lastUpsert).item.title)

\* C12: upsertItem with a source_id, url or title that is empty after trimming
\* throws, writes nothing, and its error names the url of the item.
BlankUpsertNamesUrl ==
  UpsertedBlank =>
    /\ Get(lastUpsert).error # NoError
    /\ Get(lastUpsert).after = Get(lastUpsert).before
    /\ Get(Get(lastUpsert).error).subject = Some(Get(lastUpsert).item.url)

\* The raw record has no title that is a non-empty string after trimming.
LacksTitle(raw) ==
  ~ /\ raw.t = "object"
    /\ Member(raw, "title").t = "string"
    /\ Trim(Member(raw, "title").v) # <<>>

\* The raw record has neither a url nor a link that parses as an absolute URL.
LacksUrl(raw) ==
  ~ /\ raw.t = "object"
    /\ \E key \in {"url", "link"} :
         /\ Member(raw, key).t = "string"
         /\ UrlParse(Trim(Member(raw, key).v)) # Null

WithTitleAndUrl(rawItems) ==
  SelectSeq(rawItems, LAMBDA raw : ~ LacksTitle(raw) /\ ~ LacksUrl(raw))

\* C13: the raw records of a pass that lack a title or an absolute url yield no
\* candidate, so none is upserted; the pass still finishes, counts each of them
\* in skippedCount, and itemCount + skippedCount is the number of raw records.
RejectedRecordsAreSkipped ==
  /\ passes # <<>> =>
       /\ Head(passes).accepted = Candidates(WithTitleAndUrl(Head(passes).raw))
       /\ pc \in {"sources", "items", "cursor"} =>
            /\ itemIndex <= Len(Head(passes).accepted)
            /\ candidates = Head(passes).accepted
  /\ PassDone =>
       /\ outcome.itemCount = Len(Head(passes).accepted)
       /\ outcome.itemCount + outcome.skippedCount = Len(Head(passes).raw)
       /\ outcome.skippedCount >=
            Len(Head(passes).raw) - Len(WithTitleAndUrl(Head(passes).raw))

\* A pass got five records to reject around one good one, upserted that one
\* and finished; no rejected record's url has a row.
RejectedRecordsAreSkippedWitness ==
  /\ PassDone
  /\ Len(Head(passes).raw) = 6
  /\ LacksTitle(Head(passes).raw[1])
  /\ LacksUrl(Head(passes).raw[2])
  /\ ~ LacksTitle(Head(passes).raw[3]) /\ ~ LacksUrl(Head(passes).raw[3])
  /\ LacksUrl(Head(passes).raw[4])
  /\ outcome.itemCount = 1
  /\ outcome.skippedCount = 5
  /\ { r.url : r \in db.items } = {UrlA}

\* The source id of a raw record with title and url under the four-step order:
\* the explicit id, else the slug of the source name, else the slug of the
\* source URL's hostname, else the slug of the item URL's hostname.
SourceIdByOrder(raw) ==
  LET explicit == toStringValue(getObjectValue(raw.f, <<"source_id", "sourceId">>))
      sourceName ==
        toStringValue(getObjectValue(raw.f, <<"source_name", "sourceName", "source">>))
      sourceUrl == normalizeUrl(getObjectValue(raw.f, <<"source_url", "sourceUrl">>))
      url == normalizeUrl(getObjectValue(raw.f, <<"url", "link">>))
  IN IF explicit # Null THEN Get(explicit)
     ELSE IF sourceName # Null THEN slugify(Get(sourceName))
     ELSE IF sourceUrl # Null THEN slugify(Get(UrlParse(Get(sourceUrl))).hostname)
     ELSE slugify(Get(UrlParse(Get(url))).hostname)

\* C14: every raw record of a pass with a valid title and url is accepted (its
\* item URL has a hostname, so one of the four steps resolves), and its
\* source_id is the first that resolves in the four-step order.
SourceIdFollowsOrder ==
  (passes # <<>> /\ Head(passes).raw # <<>>) =>
    LET valid == WithTitleAndUrl(Head(passes).raw)
        accepted == Head(passes).accepted
    IN /\ Len(accepted) = Len(valid)
       /\ \A i \in DOMAIN valid : accepted[i].item.source_id = SourceIdByOrder(valid[i])

SourceIds == { s.id : s \in db.sources }

\* C15: when a pass is at its item loop no source upsert is left and every
\* candidate's source_id names a sources row, and in every state every items
\* row's source_id names a sources row.
SourcesBeforeItems ==
  /\ pc = "items" =>
       /\ sourceQueue = <<>>
       /\ \A i \in DOMAIN candidates : candidates[i].item.source_id \in SourceIds
  /\ \A r \in db.items : r.source_id \in SourceIds

\* A pass with two candidates of two sources has upserted the first item and
\* is about to upsert the second: both sources have rows.
SourcesBeforeItemsWitness ==
  /\ pc = "items"
  /\ itemIndex = 1
  /\ Len(candidates) = 2
  /\ candidates[1].item.source_id # candidates[2].item.source_id
  /\ { candidates[1].item.source_id, candidates[2].item.source_id } \subseteq SourceIds
  /\ \E r \in db.items :
       r.url = candidates[1].item.url /\ r.source_id = candidates[1].item.source_id

\* ------------------------------------------------------------ page: triage

\* The links of the items the list shows.
Links == { "l1", "l2" }

TriageBuckets == { "inbox", "later", "archive" }

\* updatedAt is a time stamp no decision reads; it is left out of the state.
getDefaultItemTriageState == [bucket |-> "inbox", read |-> FALSE]

getItemTriageState(byLink, link) ==
  IF link \in DOMAIN byLink THEN byLink[link] ELSE getDefaultItemTriageState

\* { ...prev, [link]: next }
WithTriage(byLink, link, next) ==
  [ l \in DOMAIN byLink \cup {link} |-> IF l = link THEN next ELSE byLink[l] ]

\* updateItemTriage(link, (previous) => ({ ...previous, read }))
markItemRead(byLink, link, read) ==
  WithTriage(byLink, link, [getItemTriageState(byLink, link) EXCEPT !.read = read])

\* read: bucket === "archive" ? true : previous.read
setItemBucket(byLink, link, bucket) ==
  LET previous == getItemTriageState(byLink, link)
  IN WithTriage(byLink, link,
                [bucket |-> bucket,
                 read |-> IF bucket = "archive" THEN TRUE ELSE previous.read])

\* filteredItems: the items of the lane shown.
filteredItems == { l \in Links : getItemTriageState(triageByLink, l).bucket = activeBucket }

\* The mount effect's copy of the stored map: a bucket other than later and
\* archive becomes inbox, read becomes a boolean.
HydratedTriage(stored) ==
  [ l \in DOMAIN stored |->
      [bucket |-> IF stored[l].bucket \in {"later", "archive"}
                  THEN stored[l].bucket ELSE "inbox",
       read |-> stored[l].read = TRUE] ]

\* A handler sets the map; the effect on [settingsHydrated, triageByLink]
\* then writes it to the local storage.
SetTriage(next) ==
  /\ settingsHydrated
  /\ triageByLink' = next
  /\ storedTriage' = Some(next)
  /\ UNCHANGED << settingsHydrated, activeBucket >>
  /\ UNCHANGED << vars, refreshVars, restVars >>

\* The mount effect: the stored map, if any, replaces the state.
HydrateSettings ==
  /\ ~ settingsHydrated
  /\ settingsHydrated' = TRUE
  /\ triageByLink' =
       IF storedTriage = Null THEN triageByLink ELSE HydratedTriage(Get(storedTriage))
  /\ storedTriage' = Some(triageByLink')
  /\ UNCHANGED activeBucket
  /\ UNCHANGED << vars, refreshVars, restVars >>

\* The page is opened again: the state is new, the local storage is kept.
Remount ==
  /\ settingsHydrated
  /\ settingsHydrated' = FALSE
  /\ triageByLink' = <<>>
  /\ activeBucket' = "inbox"
  /\ UNCHANGED storedTriage
  /\ UNCHANGED << vars, refreshVars, restVars >>

\* A lane button: setActiveBucket(bucket).
SelectBucket ==
  /\ settingsHydrated
  /\ \E bucket \in TriageBuckets : activeBucket' = bucket
  /\ UNCHANGED << settingsHydrated, triageByLink, storedTriage >>
  /\ UNCHANGED << vars, refreshVars, restVars >>

\* A click on a row, Enter or o on the selected row, g (generateSummary).
OpenItem ==
  \E link \in filteredItems : SetTriage(markItemRead(triageByLink, link, TRUE))

\* The row's inbox button.
ClickInbox ==
  \E link \in filteredItems :
    SetTriage(markItemRead(setItemBucket(triageByLink, link, "inbox"), link, TRUE))

\* The row's later and archive buttons; the keys l and a (triageSelectedItem).
ClickBucket ==
  \E link \in filteredItems, bucket \in {"later", "archive"} :
    SetTriage(setItemBucket(triageByLink, link, bucket))

\* The row's read/unread button: markItemRead(item.link, !isRead).
ClickReadToggle ==
  \E link \in filteredItems :
    SetTriage(markItemRead(triageByLink, link,
                           ~ getItemTriageState(triageByLink, link).read))

\* The key u: setItemBucket(item.link, "inbox"); markItemRead(item.link, false).
KeyUnread ==
  \E link \in filteredItems :
    SetTriage(markItemRead(setItemBucket(triageByLink, link, "inbox"), link, FALSE))

NextTriage ==
  \/ HydrateSettings
  \/ Remount
  \/ SelectBucket
  \/ OpenItem
  \/ ClickInbox
  \/ ClickBucket
  \/ ClickReadToggle
  \/ KeyUnread

SpecTriage == Init /\ [][NextTriage]_<< vars, pageVars >>

\* C16: in every state of the triage map, an item whose bucket is archive is
\* read.
ArchiveImpliesRead ==
  \A link \in DOMAIN triageByLink :
    triageByLink[link].bucket = "archive" => triageByLink[link].read

\* ----------------------------------------------------------- page: refresh

FEED_RETRIES == 1

\* 30 and 500 in page.tsx, scaled down to what the feeds below can exceed.
MAX_ITEMS_PER_FEED == 2
MAX_TOTAL_ITEMS == 3

\* Calls of fetchFeeds in one behaviour.
MaxRequests == 2

FeedItem(link, title, source, pubDate) ==
  [link |-> link, title |-> title, source |-> source, pubDate |-> pubDate]

\* new Date(item.pubDate).getTime(); Null stands for NaN.
getTime(item) == DateParse(item.pubDate)

\* item.link || `${item.source}:${item.title}`
IdentityKey(item) ==
  IF item.link # <<>> THEN item.link ELSE item.source \o <<":">> \o item.title

\* a > b on numbers: false when either is NaN.
GreaterTime(a, b) == a # Null /\ b # Null /\ Get(a) > Get(b)

\* The Map of normalizeFeedItems, as its values in insertion order: a key set
\* again keeps its place.
RECURSIVE Deduped(_, _)
Deduped(list, map) ==
  IF list = <<>> THEN map
  ELSE LET item == Head(list)
           key == IdentityKey(item)
           at == { i \in DOMAIN map : IdentityKey(map[i]) = key }
       IN IF key = <<>> THEN Deduped(Tail(list), map)
          ELSE IF at = {} THEN Deduped(Tail(list), Append(map, item))
          ELSE LET i == CHOOSE i \in at : TRUE
               IN IF GreaterTime(getTime(item), getTime(map[i]))
                  THEN Deduped(Tail(list), [map EXCEPT ![i] = item])
                  ELSE Deduped(Tail(list), map)

\* (a, b) => getTime(b) - getTime(a), as Array.prototype.sort reads it: a NaN
\* result counts as 0.
CompareByPubDate(a, b) ==
  IF getTime(a) = Null \/ getTime(b) = Null THEN 0
  ELSE Get(getTime(b)) - Get(getTime(a))

RECURSIVE InsertByPubDate(_, _)
InsertByPubDate(sorted, item) ==
  IF sorted = <<>> THEN <<item>>
  ELSE IF CompareByPubDate(Head(sorted), item) <= 0
       THEN <<Head(sorted)>> \o InsertByPubDate(Tail(sorted), item)
       ELSE <<item>> \o sorted

\* The stable sort.
RECURSIVE StableSortByPubDate(_)
StableSortByPubDate(list) ==
  IF list = <<>> THEN <<>>
  ELSE InsertByPubDate(StableSortByPubDate(SubSeq(list, 1, Len(list) - 1)),
                       list[Len(list)])

\* The comparator is consistent on the list: comparing equal is transitive.
\* An item with no date compares equal to every item, so two different dates
\* beside it break this.
ConsistentComparator(list) ==
  \A i, j, k \in DOMAIN list :
    (CompareByPubDate(list[i], list[j]) = 0 /\ CompareByPubDate(list[j], list[k]) = 0)
      => CompareByPubDate(list[i], list[k]) = 0

AnyOrder(list) ==
  { [i \in DOMAIN list |-> list[f[i]]] :
      f \in { g \in [DOMAIN list -> DOMAIN list] :
                \A i, j \in DOMAIN list : i # j => g[i] # g[j] } }

\* Array.prototype.sort: the stable order under a consistent comparator; with
\* an inconsistent one the order is implementation-defined, any permutation.
SortedByPubDate(list) ==
  IF ConsistentComparator(list) THEN { StableSortByPubDate(list) }
  ELSE AnyOrder(list)

\* The lists normalizeFeedItems may return.
normalizeFeedItems(list) ==
  { SubSeq(sorted, 1, Min(Len(sorted), MAX_TOTAL_ITEMS)) :
      sorted \in SortedByPubDate(Deduped(list, <<>>)) }

\* allFeeds, all enabled one by one: activeFeeds is all of them while the
\* global switch is on and none while it is off.
Feeds == << "f1", "f2" >>

S1 == <<"S","1">>
S2 == <<"S","2">>

FeedSourceName(feedId) == IF feedId = "f1" THEN S1 ELSE S2

NotADate == <<"n","/","a">>

A24 == FeedItem(<<"a">>, <<"A">>, S1, Y2024)
A26 == FeedItem(<<"a">>, <<"A">>, S1, Y2026)
B25 == FeedItem(<<"b">>, <<"B">>, S1, Y2025)
C24 == FeedItem(<<"c">>, <<"C">>, S1, Y2024)
GNotADate == FeedItem(<<"g">>, <<"G">>, S1, NotADate)
G26 == FeedItem(<<"g">>, <<"G">>, S1, Y2026)
N24 == FeedItem(<<>>, <<"N">>, S1, Y2024)
N25 == FeedItem(<<>>, <<"N">>, S1, Y2025)
X25 == FeedItem(<<"a">>, <<"A">>, S2, Y2025)
Y26 == FeedItem(<<"y">>, <<"Y">>, S2, Y2026)
Z24 == FeedItem(<<"z">>, <<"Z">>, S2, Y2024)

\* What the parser of a feed may return for the content fetched, in document
\* order: one link twice, more items than a feed may contribute, two items
\* with no link and one title, a link whose first entry has a date that does
\* not parse, such an item after a dated one, a link both feeds carry, no item
\* at all.
FeedContents(feedId) ==
  IF feedId = "f1"
  THEN { <<A24, A26, B25, C24>>, <<B25, C24, A24>>, <<N24, N25>>,
         <<GNotADate, G26>>, <<C24, GNotADate>> }
  ELSE { <<X25, Y26>>, <<Z24>>, <<>> }

\* getErrorMessage(error) of a failed attempt.
FetchErrors == { "Invalid XML response", "timed out after 12s" }

\* fetchFeedWithRetry at its start: attempt, lastError, no result yet; tries
\* counts the attempts made and failures lists their errors (history).
NewFetch ==
  [attempt |-> 0, lastError |-> "Unknown error", result |-> Null, tries |-> 0,
   failures |-> <<>>]

\* The attempt returned content and the parser returned `parsed`: the result
\* is returned and the locals are gone.
OnContent(fetch, parsed) ==
  [NewFetch EXCEPT
     !.result = Some([items |-> SubSeq(parsed, 1, Min(Len(parsed), MAX_ITEMS_PER_FEED)),
                      issue |-> Null]),
     !.tries = fetch.tries + 1]

\* The catch of a loop that goes on while attempt <= FEED_RETRIES + 1.
OnErrorRetriesAgain(fetch, message) ==
  [attempt |-> fetch.attempt + 1,
   lastError |-> message,
   result |-> IF fetch.attempt + 1 <= FEED_RETRIES + 1 THEN Null
              ELSE Some([items |-> <<>>, issue |-> Some(message)]),
   tries |-> fetch.tries + 1,
   failures |-> Append(fetch.failures, message)]

\* The catch: lastError is set; the loop goes on while attempt <= FEED_RETRIES,
\* and after it the empty list is returned with the issue.
OnError(fetch, message) ==
  [attempt |-> fetch.attempt + 1,
   lastError |-> message,
   result |-> IF fetch.attempt + 1 <= FEED_RETRIES THEN Null
              ELSE Some([items |-> <<>>, issue |-> Some(message)]),
   tries |-> fetch.tries + 1,
   failures |-> Append(fetch.failures, message)]

\* if (!settingsHydrated) return; with no look at isFetchingRef.
MayStartWhileFetching(hydrated, fetching) == hydrated

\* if (!settingsHydrated) return; if (isFetchingRef.current) return;
MayStart(hydrated, fetching) == hydrated /\ ~ fetching

\* existing?.lastError
ExistingLastError(feedId) ==
  IF feedId \in DOMAIN feedHealth THEN feedHealth[feedId].lastError ELSE Null

\* fetchFeeds, called by a closure that sees the global switch as `enabled`:
\* it returns at once, or starts a cycle, or (no active feed) empties the list
\* and ends without an await.
fetchFeeds(enabled) ==
  /\ requests < MaxRequests
  /\ requests' = requests + 1
  /\ \/ /\ ~ MayStart(settingsHydrated, isFetching)
        /\ UNCHANGED refreshState
     \/ /\ MayStart(settingsHydrated, isFetching)
        /\ enabled
        /\ isFetching' = TRUE
        /\ fetchRunId' = fetchRunId + 1
        /\ isRefreshing' = TRUE
        /\ loading' = IF ~ hasLoaded THEN TRUE ELSE loading
        /\ feedError' = Null
        /\ cycle' = Some([runId |-> fetchRunId + 1,
                          enabled |-> enabled,
                          fetches |-> [f \in Range(Feeds) |-> NewFetch]])
        /\ inFlight' = inFlight + 1
        /\ UNCHANGED << hasLoaded, feedItems, feedIssues, feedHealth, lastApplied >>
     \/ /\ MayStart(settingsHydrated, isFetching)
        /\ ~ enabled
        /\ fetchRunId' = fetchRunId + 1
        /\ feedItems' = <<>>
        /\ feedIssues' = <<>>
        /\ feedError' = Null
        /\ feedHealth' = [f \in Range(Feeds) |->
                            [status |-> "disabled",
                             lastError |-> ExistingLastError(f),
                             lastItemsCount |-> 0]]
        /\ loading' = FALSE
        /\ isRefreshing' = FALSE
        /\ hasLoaded' = TRUE
        /\ isFetching' = FALSE
        /\ lastApplied' = Some([results |-> <<>>, list |-> <<>>])
        /\ UNCHANGED << cycle, inFlight >>
  /\ lastRequest' = Some([hydrated |-> settingsHydrated, fetching |-> isFetching,
                          started |-> fetchRunId' # fetchRunId])
  /\ UNCHANGED << vars, triageVars, restVars >>

\* The refresh button, the key r, the timer, the effect on [fetchFeeds].
RefreshRequested ==
  /\ fetchFeeds(sourcesGloballyEnabled)
  /\ UNCHANGED sourcesGloballyEnabled

\* The global switch of the settings; the effect on [fetchFeeds] then calls
\* the new closure.
ToggleSources ==
  /\ settingsHydrated
  /\ sourcesGloballyEnabled' = ~ sourcesGloballyEnabled
  /\ fetchFeeds(~ sourcesGloballyEnabled)

PendingFeeds ==
  IF cycle = Null THEN {}
  ELSE { f \in Range(Feeds) : Get(cycle).fetches[f].result = Null }

SetFetch(feedId, fetch) ==
  /\ cycle' = Some([Get(cycle) EXCEPT !.fetches[feedId] = fetch])
  /\ UNCHANGED << isFetching, fetchRunId, hasLoaded, feedItems, feedIssues, feedError,
                  loading, isRefreshing, feedHealth, inFlight, lastApplied >>
  /\ UNCHANGED << sourcesGloballyEnabled, requests, lastRequest >>
  /\ UNCHANGED << vars, triageVars, restVars >>

\* An attempt of fetchFeedWithRetry returns the items parsed.
FeedAttemptReturns ==
  \E f \in PendingFeeds : \E parsed \in FeedContents(f) :
    SetFetch(f, OnContent(Get(cycle).fetches[f], parsed))

\* An attempt fails: the fetch rejects or times out, or the parser throws.
FeedAttemptFails ==
  \E f \in PendingFeeds, message \in FetchErrors :
    SetFetch(f, OnError(Get(cycle).fetches[f], message))

\* results, in the order of activeFeeds.
Results(c) ==
  [ i \in DOMAIN Feeds |->
      [feedId |-> Feeds[i],
       items |-> Get(c.fetches[Feeds[i]].result).items,
       issue |-> Get(c.fetches[Feeds[i]].result).issue] ]

\* results.flatMap((result) => result.items)
RECURSIVE FlatItems(_)
FlatItems(results) ==
  IF results = <<>> THEN <<>> ELSE Head(results).items \o FlatItems(Tail(results))

\* results.map((result) => result.issue).filter(Boolean)
RECURSIVE Issues(_)
Issues(results) ==
  IF results = <<>> THEN <<>>
  ELSE IF Head(results).issue = Null THEN Issues(Tail(results))
  ELSE <<[feedId |-> Head(results).feedId, message |-> Get(Head(results).issue)]>>
       \o Issues(Tail(results))

\* setFeedHealth of a cycle with feeds (counters and time stamps left out).
HealthAfter(c, results) ==
  [ f \in Range(Feeds) |->
      LET result == CHOOSE r \in Range(results) : r.feedId = f
      IN IF ~ c.enabled
         THEN [status |-> "disabled", lastError |-> ExistingLastError(f),
               lastItemsCount |-> 0]
         ELSE IF result.issue # Null
         THEN [status |-> "error", lastError |-> result.issue, lastItemsCount |-> 0]
         ELSE [status |-> "healthy", lastError |-> Null,
               lastItemsCount |-> Len(result.items)] ]

\* Promise.all has settled: the results are applied unless a later run has
\* begun, and the finally block ends the cycle.
ApplyResults ==
  /\ cycle # Null
  /\ PendingFeeds = {}
  /\ LET c == Get(cycle)
         results == Results(c)
         issues == Issues(results)
     IN IF c.runId # fetchRunId
        THEN UNCHANGED << hasLoaded, feedItems, feedIssues, feedError, loading,
                          isRefreshing, feedHealth, lastApplied >>
        ELSE \E allItems \in normalizeFeedItems(FlatItems(results)) :
               /\ feedItems' = allItems
               /\ feedIssues' = issues
               /\ feedHealth' = HealthAfter(c, results)
               /\ feedError' =
                    IF allItems = <<>> /\ issues # <<>>
                    THEN Some("Failed to load feeds. Check source errors.")
                    ELSE feedError
               /\ loading' = FALSE
               /\ isRefreshing' = FALSE
               /\ hasLoaded' = TRUE
               /\ lastApplied' = Some([results |-> results, list |-> allItems])
  /\ isFetching' = FALSE
  /\ cycle' = Null
  /\ inFlight' = inFlight - 1
  /\ UNCHANGED << fetchRunId, sourcesGloballyEnabled, requests, lastRequest >>
  /\ UNCHANGED << vars, triageVars, restVars >>

NextRefresh ==
  \/ HydrateSettings
  \/ RefreshRequested
  \/ ToggleSources
  \/ FeedAttemptReturns
  \/ FeedAttemptFails
  \/ ApplyResults

SpecRefresh == Init /\ [][NextRefresh]_<< vars, pageVars >>

\* The identity of an item: its link, or its source and title when it has no
\* link.
ItemIdentity(item) ==
  IF item.link # <<>> THEN << "link", item.link >>
  ELSE << "source+title", item.source, item.title >>

\* No date of `other` is later than the date of `item`.
HasLatestPubDate(item, other) ==
  getTime(other) # Null =>
    (getTime(item) # Null /\ Get(getTime(item)) >= Get(getTime(other)))

NormalizeInput == FlatItems(Get(lastApplied).results)
NormalizeOutput == Get(lastApplied).list

\* C17: the list normalizeFeedItems returned holds at most one item per
\* identity, and each item in it is an input item with the latest pubDate
\* among the input items of its identity.
OneItemPerIdentityLatestWins ==
  lastApplied # Null =>
    /\ \A i, j \in DOMAIN NormalizeOutput :
         i # j => ItemIdentity(NormalizeOutput[i]) # ItemIdentity(NormalizeOutput[j])
    /\ \A i \in DOMAIN NormalizeOutput :
         /\ NormalizeOutput[i] \in Range(NormalizeInput)
         /\ \A k \in DOMAIN NormalizeInput :
              ItemIdentity(NormalizeInput[k]) = ItemIdentity(NormalizeOutput[i])
                => HasLatestPubDate(NormalizeOutput[i], NormalizeInput[k])

\* C18: the list a cycle applied is in descending order of pubDate (among the
\* items whose date parses), holds at most MAX_TOTAL_ITEMS items, none of them
\* older than an item that was left out, and at most MAX_ITEMS_PER_FEED items
\* of one source.
AppliedListSortedAndCapped ==
  lastApplied # Null =>
    /\ feedItems = NormalizeOutput
    /\ \A i, j \in DOMAIN NormalizeOutput :
         (i < j /\ getTime(NormalizeOutput[i]) # Null /\ getTime(NormalizeOutput[j]) # Null)
           => Get(getTime(NormalizeOutput[i])) >= Get(getTime(NormalizeOutput[j]))
    /\ Len(NormalizeOutput) <= MAX_TOTAL_ITEMS
    /\ \A k \in DOMAIN NormalizeInput :
         (\A i \in DOMAIN NormalizeOutput :
            ItemIdentity(NormalizeOutput[i]) # ItemIdentity(NormalizeInput[k]))
           => \A i \in DOMAIN NormalizeOutput :
                HasLatestPubDate(NormalizeOutput[i], NormalizeInput[k])
    /\ \A f \in Range(Feeds) :
         Cardinality({ i \in DOMAIN NormalizeOutput :
                         NormalizeOutput[i].source = FeedSourceName(f) })
           <= MAX_ITEMS_PER_FEED

\* C19: at most one cycle is in flight; a call of fetchFeeds made while a cycle
\* is in flight changes nothing of the refresh state (no fetch begins, the
\* cycle in flight goes on as it was), and a run begins only in the step of a
\* call made while none is in flight.
OneCycleInFlight ==
  /\ [](inFlight <= 1)
  /\ [][ /\ (requests' # requests /\ isFetching) => UNCHANGED refreshState
         /\ fetchRunId' # fetchRunId => (requests' # requests /\ ~ isFetching)
       ]_<< vars, pageVars >>

\* A call found a cycle in flight and returned; the cycle has gone on since.
OneCycleInFlightWitness ==
  /\ lastRequest = Some([hydrated |-> TRUE, fetching |-> TRUE, started |-> FALSE])
  /\ isFetching
  /\ inFlight = 1
  /\ fetchRunId = 1
  /\ requests = 2
  /\ \E f \in Range(Feeds) : Get(cycle).fetches[f].tries >= 1

\* C20: a fetch makes at most FEED_RETRIES + 1 attempts and always comes to a
\* result: after the last failed attempt the result is the empty list with an
\* issue carrying the error of that attempt; and the list a cycle applies
\* holds the items of every feed that succeeded (up to the total cap).
RetryBoundedNeverThrows ==
  /\ cycle # Null =>
       \A f \in Range(Feeds) :
         LET fetch == Get(cycle).fetches[f]
         IN /\ fetch.tries <= FEED_RETRIES + 1
            /\ fetch.result = Null => fetch.tries <= FEED_RETRIES
            /\ (fetch.result # Null /\ Get(fetch.result).issue # Null) =>
                 /\ Get(fetch.result).items = <<>>
                 /\ Len(fetch.failures) = FEED_RETRIES + 1
                 /\ Get(fetch.result).issue = Some(fetch.failures[Len(fetch.failures)])
            /\ fetch.result = Null => Len(fetch.failures) = fetch.tries
  /\ (lastApplied # Null /\ Get(lastApplied).results # <<>>) =>
       \A n \in DOMAIN Get(lastApplied).results :
         LET result == Get(lastApplied).results[n]
         IN /\ result.issue # Null => result.items = <<>>
            /\ \A k \in DOMAIN result.items :
                 \/ Len(feedItems) = MAX_TOTAL_ITEMS
                 \/ \E i \in DOMAIN feedItems :
                      ItemIdentity(feedItems[i]) = ItemIdentity(result.items[k])
            /\ (result.issue # Null) <=>
                 (\E i \in DOMAIN feedIssues : feedIssues[i].feedId = result.feedId)

\* The first feed failed twice with two different errors, the second feed
\* succeeded, and the cycle applied the second feed's items.
RetryBoundedNeverThrowsWitness ==
  /\ lastApplied # Null
  /\ cycle = Null
  /\ Len(Get(lastApplied).results) = 2
  /\ Get(lastApplied).results[1].issue = Some("timed out after 12s")
  /\ Get(lastApplied).results[2].issue = Null
  /\ Get(lastApplied).results[2].items = <<X25, Y26>>
  /\ feedItems = <<Y26, X25>>
  /\ feedIssues = << [feedId |-> "f1", message |-> "timed out after 12s"] >>
  /\ feedHealth["f1"].status = "error"
  /\ ~ isFetching

\* ------------------------------------------------- sync.ts: pure functions

\* The longest of the short strings slugify is applied to.
MaxSlugInput == 3

Repeat(c, n) == [i \in 1..n |-> c]

SlugAlphabet == { "a", "B", "7", "-", " " }

\* Source names and hostnames: every short string over the alphabet, and long
\* names with a separator around the 80th character.
SlugInputs ==
  UNION { [1..n -> SlugAlphabet] : n \in 0..MaxSlugInput }
  \cup { Repeat("a", n) \o <<" ", "b">> : n \in (SLUG_MAX - 2)..SLUG_MAX }
  \cup { Repeat("a", SLUG_MAX + 1) }

\* What a key of the response body may hold.
FromItems == JArr(<< JStr(<<"i">>) >>)
FromData == JArr(<< JStr(<<"d">>) >>)
FromNested == JArr(<< JStr(<<"n">>) >>)

Envelope(items, data) ==
  JObj([ k \in { key \in {"items", "data"} :
                   (IF key = "items" THEN items ELSE data).t # "undefined" }
           |-> IF k = "items" THEN items ELSE data ])

\* Response bodies that are no object with keys: null, a number, a string, an
\* empty array, an array.
BareBodies == << JNull, JNum(7), JStr(<<"x">>), JArr(<<>>), JArr(<< JStr(<<"p">>) >>) >>

\* What the items key of the body holds: nothing, an empty array, an array, a
\* string.
ItemsValues == << Undefined, JArr(<<>>), FromItems, JStr(<<"x">>) >>

\* What the data key holds: the same, or an object with or without an items
\* key of its own.
DataValues ==
  << Undefined, JArr(<<>>), FromData, JStr(<<"x">>), JObj(<<>>),
     JObj([items |-> JArr(<<>>)]), JObj([items |-> FromNested]),
     JObj([items |-> JStr(<<"x">>)]) >>

ApplySlugify ==
  /\ applied = Null
  /\ \E value \in SlugInputs :
       applied' = Some([fn |-> "slugify", input |-> value, output |-> slugify(value)])
  /\ UNCHANGED << vars, triageVars, refreshVars, discoverVars, appVars >>

Extracted(payload) ==
  Some([ fn |-> "extractPayloadItems", input |-> payload,
         output |-> extractPayloadItems(payload) ])

ApplyExtractPayloadItems ==
  /\ applied = Null
  /\ \/ \E b \in DOMAIN BareBodies : applied' = Extracted(BareBodies[b])
     \/ \E i \in DOMAIN ItemsValues : \E d \in DOMAIN DataValues :
          applied' = Extracted(Envelope(ItemsValues[i], DataValues[d]))
  /\ UNCHANGED << vars, triageVars, refreshVars, discoverVars, appVars >>

NextPure ==
  \/ ApplySlugify
  \/ ApplyExtractPayloadItems

SpecPure == Init /\ [][NextPure]_<< vars, pageVars >>

Applied(fn) == applied # Null /\ Get(applied).fn = fn

\* The places the claim names, in its order: the payload itself, payload.items,
\* payload.data and payload.data.items.
ExtractionPlaces(payload) ==
  << payload, Member(payload, "items"), Member(payload, "data"),
     Member(Member(payload, "data"), "items") >>

FirstNonEmptyArray(payload) ==
  LET places == ExtractionPlaces(payload)
      hits == { i \in DOMAIN places : places[i].t = "array" /\ places[i].v # <<>> }
  IN IF hits = {} THEN <<>>
     ELSE places[CHOOSE i \in hits : \A j \in hits : i <= j].v

\* C22: extractPayloadItems returns the first non-empty array among the
\* payload, payload.items, payload.data and payload.data.items, and an empty
\* list only when none of the four is a non-empty array.
ExtractReturnsFirstNonEmpty ==
  Applied("extractPayloadItems") =>
    Get(applied).output = FirstNonEmptyArray(Get(applied).input)

SlugOutputChars == Range(LowerCase) \cup Digits \cup {"-"}

HasSlugChar(value) == \E i \in DOMAIN value : IsSlugChar(ToLowerChar(value[i]))

\* C24: slugify returns a non-empty string of at most 80 characters of
\* [a-z0-9-], with no two hyphens in a row and no hyphen at either end, and
\* returns unknown-source exactly when the lowercased input has no [a-z0-9].
SlugifyIsWellFormed ==
  Applied("slugify") =>
    LET out == Get(applied).output
    IN /\ Len(out) >= 1
       /\ Len(out) <= 80
       /\ \A i \in DOMAIN out : out[i] \in SlugOutputChars
       /\ \A i \in 1..(Len(out) - 1) : ~ (out[i] = "-" /\ out[i + 1] = "-")
       /\ out[1] # "-"
       /\ out[Len(out)] # "-"
       /\ (out = UnknownSource) <=> ~ HasSlugChar(Get(applied).input)

\* ------------------------------------------------------ page: feed discovery

\* Urls are written as the path on the origin of the input; "other:/feed" is
\* on another origin.

\* FEED_DISCOVERY_PATHS, the first two of its eight paths.
FEED_DISCOVERY_PATHS == << "/feed", "/rss" >>

\* /(feed|rss|atom|xml)/i.test(pathname), for the pathnames of the inputs.
LooksLikeFeedPath(pathname) == pathname \in { "/feed", "/blog/rss", "/atom.xml" }

\* What the user types: a publication url (its pathname with the trailing
\* slash removed, and whether the host is on substack.com), or text that is
\* no url.
DiscoverInputs ==
  { [valid |-> TRUE, pathname |-> p, substack |-> sub] :
      p \in { "", "/blog", "/feed" }, sub \in BOOLEAN }
  \cup { [valid |-> FALSE, pathname |-> "", substack |-> FALSE] }

\* candidates.add(...): a Set keeps one copy, in insertion order.
RECURSIVE AddAll(_, _)
AddAll(list, more) ==
  IF more = <<>> THEN list
  ELSE AddAll(IF Head(more) \in Range(list) THEN list ELSE Append(list, Head(more)),
              Tail(more))

buildDiscoveryCandidates(input) ==
  LET pathname == input.pathname
      initial == << IF pathname = "" THEN "/" ELSE pathname >>
      paths == IF LooksLikeFeedPath(pathname) THEN <<>>
               ELSE FEED_DISCOVERY_PATHS
                    \o (IF pathname # ""
                        THEN << pathname \o "/feed", pathname \o "/rss", pathname \o ".xml" >>
                        ELSE <<>>)
      shortcut == IF input.substack THEN << "/feed" >> ELSE <<>>
  IN AddAll(AddAll(AddAll(<<>>, initial), paths), shortcut)

\* extractFeedLinksFromHtml: the feed links of an html body, resolved.
LinkLists == { <<>>, << "/l" >>, << "/feed", "other:/feed" >> }

\* What the fetch of a candidate gives: it rejects or times out, or it
\* resolves with a feed document or with another body and its feed links.
FetchOutcomes ==
  { [kind |-> "failed", links |-> <<>>], [kind |-> "feed", links |-> <<>>] }
  \cup { [kind |-> "html", links |-> links] : links \in LinkLists }

CouldNotDiscover == "Could not discover an RSS/Atom feed from that URL."

\* The loop with no look at seen: every popped candidate is fetched.
SkipNothing(queue, seen) == queue

\* const candidate = queue.shift(); if (seen.has(candidate)) continue;
RECURSIVE SkipSeen(_, _)
SkipSeen(queue, seen) ==
  IF queue # <<>> /\ Head(queue) \in seen THEN SkipSeen(Tail(queue), seen) ELSE queue

CountOf(fetched, url) == IF url \in DOMAIN fetched THEN fetched[url] ELSE 0

\* The loop from its head to the next await, or to the throw after it.
ProbeNext(queue, seen) ==
  LET rest == SkipSeen(queue, seen)
  IN IF rest = <<>>
     THEN /\ dQueue' = <<>>
          /\ dFetching' = Null
          /\ dResult' = Some([ok |-> FALSE, error |-> CouldNotDiscover])
          /\ UNCHANGED << dSeen, dFetched >>
     ELSE /\ dQueue' = Tail(rest)
          /\ dSeen' = seen \cup {Head(rest)}
          /\ dFetching' = Some(Head(rest))
          /\ dFetched' = [ u \in DOMAIN dFetched \cup {Head(rest)} |->
                             CountOf(dFetched, u) + (IF u = Head(rest) THEN 1 ELSE 0) ]
          /\ UNCHANGED dResult

\* discoverRssFeed(inputUrl), up to its first await.
DiscoverStart ==
  /\ dInput = Null
  /\ \E input \in DiscoverInputs :
       /\ dInput' = Some(input)
       /\ IF ~ input.valid
          THEN \* toAbsoluteHttpsUrl: new URL(...) throws
               /\ dResult' = Some([ok |-> FALSE, error |-> "Invalid URL"])
               /\ UNCHANGED << dQueue, dSeen, dFetching, dEnqueued, dFetched >>
          ELSE LET queue == buildDiscoveryCandidates(input)
               IN /\ dEnqueued' = Range(queue)
                  /\ ProbeNext(queue, {})
  /\ UNCHANGED << dFeeds, dFailed >>
  /\ UNCHANGED << vars, triageVars, refreshVars, pureVars, appVars >>

\* The awaited fetch settles; the loop goes on to the next await or ends.
DiscoverFetchSettles ==
  /\ dFetching # Null
  /\ \E settled \in FetchOutcomes :
       LET candidate == Get(dFetching)
           discovered == SelectSeq(settled.links, LAMBDA url : url \notin dSeen)
       IN CASE settled.kind = "feed" ->
                 /\ dResult' = Some([ok |-> TRUE, feedUrl |-> candidate])
                 /\ dFetching' = Null
                 /\ dFeeds' = dFeeds \cup {candidate}
                 /\ UNCHANGED << dQueue, dSeen, dEnqueued, dFetched, dFailed >>
            [] settled.kind = "html" ->
                 /\ dEnqueued' = dEnqueued \cup Range(discovered)
                 /\ ProbeNext(dQueue \o discovered, dSeen)
                 /\ UNCHANGED << dFeeds, dFailed >>
            [] settled.kind = "failed" ->
                 /\ dFailed' = dFailed \cup {candidate}
                 /\ ProbeNext(dQueue, dSeen)
                 /\ UNCHANGED << dFeeds, dEnqueued >>
  /\ UNCHANGED dInput
  /\ UNCHANGED << vars, triageVars, refreshVars, pureVars, appVars >>

NextDiscover ==
  \/ DiscoverStart
  \/ DiscoverFetchSettles

\* withTimeout settles every awaited fetch.
SpecDiscover ==
  /\ Init
  /\ [][NextDiscover]_<< vars, pageVars >>
  /\ WF_<< vars, pageVars >>(DiscoverFetchSettles)

DiscoverProbing == dInput # Null /\ Get(dInput).valid

\* C23: discoverRssFeed fetches each candidate at most once and ends: it
\* returns the first probed candidate whose body is a feed document, or it
\* fails with the could-not-discover error once the queue is drained and every
\* candidate was probed, failed fetches included.
DiscoveryProbesOnceAndEnds ==
  /\ [] /\ \A url \in DOMAIN dFetched : dFetched[url] <= 1
        /\ DiscoverProbing /\ dResult = Null => dFetching # Null
        /\ DiscoverProbing /\ dResult # Null =>
             IF Get(dResult).ok
             THEN dFeeds = { Get(dResult).feedUrl }
             ELSE /\ Get(dResult).error = CouldNotDiscover
                  /\ dQueue = <<>>
                  /\ dFeeds = {}
                  /\ \A url \in dEnqueued : CountOf(dFetched, url) = 1
  /\ DiscoverProbing ~> dResult # Null

\* A fetch failed, another body held links, and a later candidate is the feed.
DiscoveryProbesOnceAndEndsWitness ==
  /\ DiscoverProbing
  /\ dResult = Some([ok |-> TRUE, feedUrl |-> "other:/feed"])
  /\ dFailed # {}
  /\ Cardinality(DOMAIN dFetched) >= 4

\* -------------------------------------------- db-init.ts, db-seed.ts, useSync

varsButOps ==
  << db, now, pc, syncVars, called, lastUpsert, acceptedUrls, passes >>

varsButDb ==
  << now, ops, pc, syncVars, called, lastUpsert, acceptedUrls, passes >>

besideApp == << triageVars, refreshVars, pureVars, discoverVars >>

\* parseStatements(migrationSql): the first two of the schema's statements.
MigrationStatements == << "CREATE TABLE sources", "CREATE TABLE items" >>

\* DEFAULT_FEEDS: two of the built-in feeds; the first has the id the remote
\* names its source by.
DEFAULT_FEEDS ==
  << [id |-> SourceX, source |-> <<"X">>, url |-> UrlA, type |-> Rss, category |-> General],
     [id |-> <<"d">>, source |-> <<"D">>, url |-> UrlB, type |-> Html,
      category |-> General] >>

DefaultIds == { DEFAULT_FEEDS[i].id : i \in DOMAIN DEFAULT_FEEDS }

\* One run of the async function initializeDb memoizes.
NewRun ==
  [ phase |-> "begin", index |-> 0, existing |-> {}, error |-> NoError, result |-> Null,
    steps |-> <<>>, schemaBefore |-> sql.schema, failedAt |-> Null,
    seedBefore |-> Null, seedNow |-> 0, seeded |-> {} ]

CurrentRun == runs[Len(runs)]

Running(phase) == runs # <<>> /\ CurrentRun.phase = phase

SetRun(run) == runs' = [runs EXCEPT ![Len(runs)] = run]

Settled(run) == runs[run].phase \in { "ok", "failed" }

\* The memo is never looked at: every call starts a run.
MemoizedNever(memo) == FALSE

\* if (!initializationPromise) { ... }
Memoized(memo) == memo # Null

\* The promise a call of initializeDb returns, by its run.
Returned == IF Memoized(initializationPromise) THEN Get(initializationPromise)
            ELSE Len(runs) + 1

\* What a call found and what it did.
CallRecord(caller, started) ==
  [ caller |-> caller, memo |-> initializationPromise, returned |-> Returned,
    started |-> started, last |-> Len(runs),
    phase |-> IF runs = <<>> THEN "none" ELSE CurrentRun.phase ]

initializeDb(caller) ==
  IF Memoized(initializationPromise)
  THEN /\ lastCall' = Some(CallRecord(caller, FALSE))
       /\ UNCHANGED << initializationPromise, runs, sql >>
  ELSE /\ runs' = Append(runs, NewRun)
       /\ initializationPromise' = Some(Len(runs) + 1)
       /\ sql' = [sql EXCEPT !.log = <<>>]
       /\ lastCall' = Some(CallRecord(caller, TRUE))

\* .catch((error) => { initializationPromise = null; throw error; })
RunFails(run, error) ==
  /\ SetRun([run EXCEPT !.phase = "failed", !.error = error])
  /\ initializationPromise' = Null

\* await db.execute("BEGIN")
MigrateBegin ==
  /\ Running("begin")
  /\ sql' = [sql EXCEPT !.inTxn = TRUE, !.pending = {}, !.log = Append(@, "BEGIN")]
  /\ SetRun([CurrentRun EXCEPT !.phase = "statements",
                               !.steps = Append(@, "migration")])
  /\ UNCHANGED << initializationPromise, passOwner, otherAwait, lastCall >>
  /\ UNCHANGED << vars, hookVars, besideApp >>

\* await db.execute(statement): it resolves or it rejects.
MigrateStatement ==
  /\ Running("statements")
  /\ LET statement == MigrationStatements[CurrentRun.index + 1]
     IN /\ \E ok \in BOOLEAN :
             IF ok
             THEN /\ sql' = [sql EXCEPT !.pending = @ \cup {statement},
                                        !.log = Append(@, statement)]
                  /\ SetRun([CurrentRun EXCEPT
                               !.index = @ + 1,
                               !.phase = IF CurrentRun.index + 1 = Len(MigrationStatements)
                                         THEN "commit" ELSE "statements"])
             ELSE /\ sql' = [sql EXCEPT !.log = Append(@, statement)]
                  /\ SetRun([CurrentRun EXCEPT
                               !.phase = "rollback",
                               !.failedAt = Some("statement"),
                               !.error = Thrown("statement failed", Some(statement), Null)])
  /\ UNCHANGED << initializationPromise, passOwner, otherAwait, lastCall >>
  /\ UNCHANGED << vars, hookVars, besideApp >>

\* await db.execute("COMMIT"): it resolves or it rejects.
MigrateCommit ==
  /\ Running("commit")
  /\ \E ok \in BOOLEAN :
       IF ok
       THEN /\ sql' = [sql EXCEPT !.schema = @ \cup sql.pending, !.pending = {},
                                  !.inTxn = FALSE, !.log = Append(@, "COMMIT")]
            /\ SetRun([CurrentRun EXCEPT !.phase = "seed-read", !.index = 0])
       ELSE /\ sql' = [sql EXCEPT !.log = Append(@, "COMMIT")]
            /\ SetRun([CurrentRun EXCEPT
                         !.phase = "rollback",
                         !.failedAt = Some("commit"),
                         !.error = Thrown("commit failed", Null, Null)])
  /\ UNCHANGED << initializationPromise, passOwner, otherAwait, lastCall >>
  /\ UNCHANGED << vars, hookVars, besideApp >>

\* ROLLBACK that leaves the statements of the transaction applied.
RolledBackKeepsPending(q) ==
  [q EXCEPT !.schema = @ \cup q.pending, !.pending = {}, !.inTxn = FALSE,
            !.log = Append(@, "ROLLBACK")]

\* await db.execute("ROLLBACK")
RolledBack(q) ==
  [q EXCEPT !.pending = {}, !.inTxn = FALSE, !.log = Append(@, "ROLLBACK")]

\* catch (error) { await db.execute("ROLLBACK"); throw error; }
MigrateRollback ==
  /\ Running("rollback")
  /\ sql' = RolledBack(sql)
  /\ RunFails(CurrentRun, CurrentRun.error)
  /\ UNCHANGED << passOwner, otherAwait, lastCall >>
  /\ UNCHANGED << vars, hookVars, besideApp >>

\* const existing = await getSources(); existingById; now
SeedRead ==
  /\ Running("seed-read")
  /\ SetRun([CurrentRun EXCEPT
               !.phase = "seed",
               !.index = 0,
               !.existing = { source.id : source \in getSources(db) },
               !.seedBefore = Some(getSources(db)),
               !.seedNow = now,
               !.steps = Append(@, "seed")])
  /\ UNCHANGED << initializationPromise, sql, passOwner, otherAwait, lastCall >>
  /\ UNCHANGED << vars, hookVars, besideApp >>

\* No default is skipped.
SeedSkipsNone(existingById, feed) == FALSE

\* if (existingById.has(feed.id)) continue;
SeedSkips(existingById, feed) == feed.id \in existingById

SeedSource(feed, clock) ==
  [ id |-> feed.id, name |-> feed.source, url |-> feed.url, type |-> feed.type,
    category |-> feed.category, enabled |-> Some(TRUE), added_at |-> Some(clock) ]

\* One turn of the loop over DEFAULT_FEEDS.
SeedStep ==
  /\ Running("seed")
  /\ LET feed == DEFAULT_FEEDS[CurrentRun.index + 1]
         after == IF CurrentRun.index + 1 = Len(DEFAULT_FEEDS) THEN "sync" ELSE "seed"
         r == upsertSource(db, SeedSource(feed, CurrentRun.seedNow), now)
     IN IF SeedSkips(CurrentRun.existing, feed)
        THEN /\ SetRun([CurrentRun EXCEPT !.index = @ + 1, !.phase = after])
             /\ UNCHANGED << db, initializationPromise >>
        ELSE IF r.error # NoError
        THEN /\ RunFails(CurrentRun, r.error)
             /\ UNCHANGED db
        ELSE /\ db' = r.db
             /\ SetRun([CurrentRun EXCEPT !.index = @ + 1, !.phase = after,
                                          !.seeded = @ \cup {feed.id}])
             /\ UNCHANGED initializationPromise
  /\ UNCHANGED << sql, passOwner, otherAwait, lastCall >>
  /\ UNCHANGED << varsButDb, hookVars, besideApp >>

\* return syncFromVps(): the pass starts.
InitSyncStart ==
  /\ Running("sync")
  /\ passOwner = Null
  /\ SyncStartCore
  /\ passOwner' = Some("init")
  /\ SetRun([CurrentRun EXCEPT !.phase = "syncing", !.steps = Append(@, "sync")])
  /\ UNCHANGED << initializationPromise, sql, otherAwait, lastCall >>
  /\ UNCHANGED << ops, hookVars, besideApp >>

\* The pass of the run has ended: the run resolves with its summary or rejects.
InitSyncSettles ==
  /\ Running("syncing")
  /\ passOwner = Some("init")
  /\ pc = "idle"
  /\ passOwner' = Null
  /\ IF outcome.ok
     THEN /\ SetRun([CurrentRun EXCEPT !.phase = "ok", !.result = Some(outcome)])
          /\ UNCHANGED initializationPromise
     ELSE RunFails(CurrentRun, outcome.error)
  /\ UNCHANGED << sql, otherAwait, lastCall >>
  /\ UNCHANGED << vars, hookVars, besideApp >>

\* Some component calls initializeDb and awaits what it returns.
OtherCalls ==
  /\ ops < MaxOps
  /\ ops' = ops + 1
  /\ initializeDb("other")
  /\ otherAwait' = otherAwait \cup { Returned }
  /\ UNCHANGED passOwner
  /\ UNCHANGED << varsButOps, hookVars, besideApp >>

OtherSettles ==
  /\ \E run \in otherAwait :
       /\ Settled(run)
       /\ otherAwait' = otherAwait \ { run }
  /\ UNCHANGED << initializationPromise, runs, sql, passOwner, lastCall >>
  /\ UNCHANGED << vars, hookVars, besideApp >>

\* db.execute rejects in the middle of a pass; nothing is undone, the rows
\* written so far stay.
RejectedStoreRolledBack(store, sourcesBefore) == [store EXCEPT !.sources = sourcesBefore]

RejectedStore(store, sourcesBefore) == store

\* An upsert of the pass, or setMetadataValue, rejects.
SyncStoreRejects ==
  /\ pc \in { "sources", "items", "cursor" }
  /\ Throw(Thrown("Failed to upsert", Null, Some("database is locked")))
  /\ db' = RejectedStore(db, existingSources)
  /\ UNCHANGED << now, ops, request, previousSync, rawCount, candidates, existingSources,
                  sourceQueue, itemIndex, cursor, called, lastUpsert, acceptedUrls >>
  /\ UNCHANGED pageVars

\* setSyncing(true); setError(null), when mounted
HookStarts(mounted) ==
  /\ syncingRef' = TRUE
  /\ hookState' = IF mounted THEN [hookState EXCEPT !.syncing = TRUE, !.error = Null]
                  ELSE hookState

\* The mount effect runs.
HookMount ==
  /\ ~ effectActive
  /\ ops < MaxOps
  /\ ops' = ops + 1
  /\ effectActive' = TRUE
  /\ mountedRef' = TRUE
  /\ IF syncingRef
     THEN UNCHANGED << syncingRef, hookState, hookAwaits, initializationPromise, runs, sql,
                       lastCall >>
     ELSE /\ HookStarts(TRUE)
          /\ initializeDb("hook")
          /\ hookAwaits' = hookAwaits \cup { [kind |-> "init", run |-> Returned] }
  /\ UNCHANGED << passOwner, otherAwait, lastResync >>
  /\ UNCHANGED << varsButOps, besideApp >>

\* The cleanup of the mount effect runs.
HookUnmount ==
  /\ effectActive
  /\ effectActive' = FALSE
  /\ mountedRef' = FALSE
  /\ UNCHANGED << syncingRef, hookAwaits, hookState, lastResync >>
  /\ UNCHANGED << vars, initVars, besideApp >>

\* resync with no look at syncingRef.
MayResyncAlways(syncing) == TRUE

\* if (syncingRef.current) return;
MayResync(syncing) == ~ syncing

\* A call of resync, up to its await.  The callback is in the hands of a
\* component that has rendered: the mount effect, the first call charged to
\* ops, has run.
Resync ==
  /\ effectActive \/ ops > 0
  /\ ops < MaxOps
  /\ ops' = ops + 1
  /\ lastResync' = Some([ syncing |-> syncingRef, started |-> MayResync(syncingRef),
                          call |-> ops + 1 ])
  /\ IF ~ MayResync(syncingRef)
     THEN /\ UNCHANGED << syncingRef, hookAwaits, hookState, passOwner >>
          /\ UNCHANGED varsButOps
     ELSE /\ passOwner = Null
          /\ SyncStartCore
          /\ passOwner' = Some("resync")
          /\ HookStarts(mountedRef)
          /\ hookAwaits' = hookAwaits \cup { [kind |-> "resync", run |-> 0] }
  /\ UNCHANGED << effectActive, mountedRef >>
  /\ UNCHANGED << initializationPromise, runs, sql, otherAwait, lastCall >>
  /\ UNCHANGED besideApp

\* The guard is cleared only while the hook is mounted.
GuardAfterSettleIfMounted(mounted) == ~ mounted

\* finally { syncingRef.current = false; ... }
GuardAfterSettle(mounted) == FALSE

\* After the await: the try, the catch and the finally block.
HookSettles(await, ok, result, error) ==
  /\ hookAwaits' = hookAwaits \ {await}
  /\ syncingRef' = GuardAfterSettle(mountedRef)
  /\ hookState' =
       IF ~ mountedRef THEN hookState
       ELSE IF ok THEN [hookState EXCEPT !.lastSync = Some(result.lastSync),
                                         !.itemCount = result.itemCount,
                                         !.syncing = FALSE]
       ELSE [hookState EXCEPT !.error = Some(Get(error).message), !.syncing = FALSE]
  /\ UNCHANGED << effectActive, mountedRef, lastResync >>

\* The pass resync awaits has ended.
HookResyncSettles ==
  /\ passOwner = Some("resync")
  /\ pc = "idle"
  /\ \E await \in hookAwaits :
       /\ await.kind = "resync"
       /\ HookSettles(await, outcome.ok, outcome, IF outcome.ok THEN NoError ELSE outcome.error)
  /\ passOwner' = Null
  /\ UNCHANGED << initializationPromise, runs, sql, otherAwait, lastCall >>
  /\ UNCHANGED << vars, besideApp >>

\* The promise the mount effect awaits has settled.
HookInitSettles ==
  /\ \E await \in hookAwaits :
       /\ await.kind = "init"
       /\ Settled(await.run)
       /\ LET run == runs[await.run]
          IN HookSettles(await, run.phase = "ok",
                         IF run.phase = "ok" THEN Get(run.result) ELSE Null, run.error)
  /\ UNCHANGED << vars, initVars, besideApp >>

\* The remote answers with no record or with one.
SyncReceiveShort ==
  /\ SyncReceive
  /\ rawCount' <= 1

\* A run of the initialization, step by step.
InitRun ==
  \/ MigrateBegin
  \/ MigrateStatement
  \/ MigrateCommit
  \/ MigrateRollback
  \/ SeedRead
  \/ SeedStep
  \/ InitSyncStart
  \/ InitSyncSettles

\* The initialization with a caller beside it, the passes it starts, and the
\* user switching a source off.
NextInit ==
  \/ OtherCalls
  \/ OtherSettles
  \/ InitRun
  \/ SyncFetchRejects
  \/ SyncNotOk
  \/ SyncJsonRejects
  \/ SyncReceive
  \/ SyncUpsertSource
  \/ SyncUpsertItem
  \/ SyncFinish
  \/ CallUpsertSource(SyncSideSources)

SpecInit == Init /\ [][NextInit]_<< vars, pageVars >>

\* One instance of the hook, the initialization its mount effect awaits and
\* the passes resync starts.
NextHook ==
  \/ HookMount
  \/ HookUnmount
  \/ Resync
  \/ HookResyncSettles
  \/ HookInitSettles
  \/ InitRun
  \/ SyncFetchRejects
  \/ SyncNotOk
  \/ SyncJsonRejects
  \/ SyncReceiveShort
  \/ SyncUpsertSource
  \/ SyncUpsertItem
  \/ SyncFinish

SpecHook == Init /\ [][NextHook]_<< vars, pageVars >>

\* Passes one after another, each of which the store may fail.
NextSyncFail ==
  \/ SyncPass
  \/ SyncStoreRejects

SpecSyncFail == Init /\ [][NextSyncFail]_<< vars, pageVars >>

\* ---------------------------------------------------------------------- C21

Issued(statement) == \E i \in DOMAIN sql.log : sql.log[i] = statement

\* The run in hand has left runMigration through a statement that failed.
StatementFailed ==
  /\ runs # <<>>
  /\ CurrentRun.failedAt = Some("statement")
  /\ CurrentRun.phase = "failed"

SeedStepped ==
  /\ Running("seed")
  /\ runs' # runs
  /\ Len(runs') = Len(runs)

SeedTurn ==
  LET feed == DEFAULT_FEEDS[CurrentRun.index + 1]
  IN /\ feed.id \in CurrentRun.existing => db' = db
     /\ \A row \in db.sources :
          row.id \in CurrentRun.existing \/ row.id # feed.id => row \in db'.sources
     /\ feed.id \notin CurrentRun.existing =>
          \E row \in db'.sources :
            /\ row.id = feed.id
            /\ row.name = feed.source
            /\ row.url = feed.url
            /\ row.enabled
            /\ db'.sources \subseteq db.sources \cup {row}
     /\ db'.items = db.items
     /\ db'.metadata = db.metadata

SeededRuns == { i \in DOMAIN runs : "seed" \in { runs[i].steps[k] : k \in DOMAIN runs[i].steps } }

DoneSeeding(i) == "sync" \in { runs[i].steps[k] : k \in DOMAIN runs[i].steps }

\* C28: seedDefaultSources upserts only default sources whose id was absent
\* when it read the sources.  A turn of its loop for a default that was
\* present changes nothing, so a row already stored, one the user switched off
\* included, is left as it is; a turn for an absent default adds that row only.
\* A run of the seeding that follows a completed one upserts nothing.
SeedOnlyAddsAbsentDefaults ==
  /\ [][SeedStepped => SeedTurn]_<< vars, pageVars >>
  /\ [] \A i \in SeededRuns :
          /\ runs[i].seeded \subseteq DefaultIds \ runs[i].existing
          /\ runs[i].existing = { row.id : row \in Get(runs[i].seedBefore) }
          /\ DoneSeeding(i) => DefaultIds \subseteq runs[i].existing \cup runs[i].seeded
          /\ i > 1 /\ DoneSeeding(i - 1) => runs[i].seeded = {}

\* The first run seeded both defaults and failed in its sync; the user
\* switched one of them off; the second run has gone through its seeding and
\* the row is still switched off.
SeedOnlyAddsAbsentDefaultsWitness ==
  /\ Len(runs) = 2
  /\ runs[1].seeded = DefaultIds
  /\ DoneSeeding(2)
  /\ runs[2].seeded = {}
  /\ \E row \in db.sources : row.id \in DefaultIds /\ ~ row.enabled

\* ---------------------------------------------------------------------- C27

InitSteps == << "migration", "seed", "sync" >>

\* C27: a call of initializeDb made while a run is pending or has succeeded
\* starts nothing and returns the promise of that run; a call made before any
\* run, or once the last run has failed, starts a run.  So there is one run
\* that is not a failed one, and it is the one the memo holds.  A run goes
\* through migration, seeding and the initial sync once each and in that
\* order, and has gone through the three when it succeeds.
InitializationRunsOnce ==
  /\ initializationPromise = Null <=> runs = <<>> \/ CurrentRun.phase = "failed"
  /\ initializationPromise # Null => Get(initializationPromise) = Len(runs)
  /\ \A i \in DOMAIN runs :
       /\ i < Len(runs) => runs[i].phase = "failed"
       /\ runs[i].steps = SubSeq(InitSteps, 1, Len(runs[i].steps))
       /\ runs[i].phase = "ok" => runs[i].steps = InitSteps
  /\ lastCall # Null =>
       LET call == Get(lastCall)
       IN IF call.phase \in { "none", "failed" }
          THEN call.started /\ call.returned = call.last + 1
          ELSE ~ call.started /\ call.returned = call.last

\* The first run failed, the second succeeded, and a call made after that was
\* given the second run's promise.
InitializationRunsOnceWitness ==
  /\ Len(runs) = 2
  /\ runs[1].phase = "failed"
  /\ runs[2].phase = "ok"
  /\ lastCall # Null
  /\ Get(lastCall).phase = "ok"
  /\ Get(lastCall).returned = 2

\* ---------------------------------------------------------------------- C25

PassFailed == passes # <<>> /\ Head(passes).state = "failed"

\* The ids of the sources the pass has upserted: those of its candidates that
\* are no longer waiting in the queue.
SourcesUpserted ==
  { candidates[i].source.id : i \in DOMAIN candidates }
    \ { sourceQueue[i].id : i \in DOMAIN sourceQueue }

\* C25: while a pass runs and after it has thrown, at whichever step,
\* sync.last_success_at holds the value the pass read when it started; the
\* source rows and the item rows the pass upserted before it threw are still
\* in the store.
FailedPassKeepsCursor ==
  /\ passes # <<>> /\ Head(passes).state \in { "running", "failed" } =>
       StoredCursor = Head(passes).since
  /\ PassFailed =>
       /\ \A i \in 1..itemIndex : \E row \in db.items : row.url = candidates[i].item.url
       /\ \A id \in SourcesUpserted : \E row \in db.sources : row.id = id

\* A pass that started from a stored cursor threw after it had upserted an
\* item.
FailedPassKeepsCursorWitness ==
  /\ PassFailed
  /\ Head(passes).since # Null
  /\ Head(passes).error = Thrown("Failed to upsert", Null, Some("database is locked"))
  /\ itemIndex >= 1
  /\ Head(passes).accepted = candidates

\* ---------------------------------------------------------------------- C26

\* A call of resync is made while the guard is set.
ResyncWhileSyncing == lastResync' # lastResync /\ syncingRef

\* C26: within one instance of the hook, however mounts, unmounts, remounts
\* and calls of resync interleave, at most one sync operation (the awaited
\* initialization with its initial pass, or the pass of a resync) is in flight,
\* and the guard is set while it is; a call of resync made while one is in
\* flight starts no syncFromVps call and changes nothing.
OneSyncInFlight ==
  /\ [] /\ Cardinality(hookAwaits) <= 1
        /\ hookAwaits # {} <=> syncingRef
        /\ passOwner = Some("resync") => hookAwaits = { [kind |-> "resync", run |-> 0] }
  /\ [][ResyncWhileSyncing =>
          /\ ~ Get(lastResync').started
          /\ UNCHANGED << varsButOps, initVars, effectActive, mountedRef, syncingRef,
                          hookAwaits, hookState >>]_<< vars, pageVars >>

\* The hook was mounted, unmounted and mounted again while the initial pass
\* was being fetched, and a call of resync then found the guard set.
OneSyncInFlightWitness ==
  /\ lastResync # Null
  /\ Get(lastResync).call = 3
  /\ ~ Get(lastResync).started
  /\ effectActive
  /\ passOwner = Some("init")
  /\ pc = "fetching"
  /\ hookAwaits = { [kind |-> "init", run |-> 1] }

\* ---------------------------------------------------------------------- C29

\* sourcesGloballyEnabled ? allFeeds.filter((feed) => feed.enabled) : []
ActiveFeedIds == IF sourcesGloballyEnabled THEN Range(Feeds) ELSE {}

\* The cycle in flight ends by applying its results.
CycleApplies ==
  /\ cycle # Null
  /\ cycle' = Null
  /\ Get(cycle).runId = fetchRunId

\* C29: whenever a refresh cycle applies its results, the feeds it fetched are
\* the feeds active at that moment.
AppliedFeedsAreActiveFeeds ==
  [][CycleApplies => DOMAIN Get(cycle).fetches = ActiveFeedIds]_<< vars, pageVars >>

\* ---------------------------------------------------------------------- C30

MaxLive == 2

\* A step of the hook's side, the page not having started.
HookSide(A) ==
  /\ ~ settingsHydrated
  /\ requests = 0
  /\ A
  /\ ops' <= MaxLive

\* A step of the page's side, the hook not having started.
PageSide(A) ==
  /\ ops = 0
  /\ A
  /\ requests' < MaxLive

\* The hook and its passes, or the page and its refresh cycles: the two share
\* no state, and a behaviour follows one of them.
NextLive ==
  \/ HookSide(HookMount)
  \/ HookSide(HookUnmount)
  \/ HookSide(Resync)
  \/ HookSide(HookResyncSettles)
  \/ HookSide(HookInitSettles)
  \/ HookSide(MigrateBegin)
  \/ HookSide(MigrateStatement)
  \/ HookSide(MigrateCommit)
  \/ HookSide(MigrateRollback)
  \/ HookSide(SeedRead)
  \/ HookSide(SeedStep)
  \/ HookSide(InitSyncStart)
  \/ HookSide(InitSyncSettles)
  \/ HookSide(SyncFetchRejects)
  \/ HookSide(SyncNotOk)
  \/ HookSide(SyncJsonRejects)
  \/ HookSide(SyncReceiveShort)
  \/ HookSide(SyncUpsertSource)
  \/ HookSide(SyncUpsertItem)
  \/ HookSide(SyncFinish)
  \/ PageSide(HydrateSettings)
  \/ PageSide(RefreshRequested)
  \/ PageSide(ToggleSources)
  \/ PageSide(FeedAttemptReturns)
  \/ PageSide(FeedAttemptFails)
  \/ PageSide(ApplyResults)

\* Promise.all of a cycle has settled and its continuation has not run:
\* ApplyResults, and nothing else, is what ends this.
CycleSettled ==
  /\ cycle # Null
  /\ PendingFeeds = {}

\* What the awaited calls do once they are made: the store's statements and
\* the network's answers settle, and the code after an await runs.
Settling ==
  \/ HookSide(InitRun)
  \/ HookSide(SyncFetchRejects)
  \/ HookSide(SyncNotOk)
  \/ HookSide(SyncJsonRejects)
  \/ HookSide(SyncReceiveShort)
  \/ HookSide(SyncUpsertSource)
  \/ HookSide(SyncUpsertItem)
  \/ HookSide(SyncFinish)
  \/ HookSide(HookResyncSettles)
  \/ HookSide(HookInitSettles)
  \/ PageSide(FeedAttemptReturns)
  \/ PageSide(FeedAttemptFails)

SpecLive ==
  /\ Init
  /\ [][NextLive]_<< vars, pageVars >>
  /\ WF_<< vars, pageVars >>(Settling)
  /\ []<>(~ CycleSettled)

\* C30: provided the awaited calls settle, a sync pass that has set
\* syncingRef and a refresh cycle that has set isFetchingRef each clear their
\* guard in the end, whether the awaited call succeeds or fails and whether or
\* not the hook is unmounted meanwhile.
GuardsAreCleared ==
  /\ syncingRef ~> ~ syncingRef
  /\ isFetching ~> ~ isFetching

\* The initialization failed while the hook was unmounted: the guard is
\* cleared, the state of the hook still says syncing.
GuardsAreClearedWitness ==
  /\ ~ syncingRef
  /\ ~ effectActive
  /\ hookState.syncing
  /\ runs # <<>>
  /\ CurrentRun.phase = "failed"

====
